---------------------------- MODULE Spec2Model ----------------------------
(***************************************************************************)
(* Verification model of llm-newsletter-kit-core.                          *)
(*                                                                         *)
(*   SpecFetch    one call of getHtmlFromUrl (resilient fetcher)           *)
(*   SpecInsights one call of ArticleInsightsChain.generateInsights        *)
(*   SpecCrawl    one call of CrawlingChain.executeGroupPipeline           *)
(*   SpecGenerate one call of GenerateNewsletter.generate                  *)
(*   SpecLogging  one call of LoggingExecutor.executeWithLogging           *)
(*   SpecContent  one call of ContentGenerateChain.chain                   *)
(*   SpecUpdate   the accumulator update of generateInsights, as a function*)
(*   SpecScore    the scoring of one article by determineImportance        *)
(*   SpecListPage the list-page fetches of one target under withRetry      *)
(*                                                                         *)
(* Each specification drives one component; the variables of the other     *)
(* components stay at their idle values.                                   *)
(***************************************************************************)
EXTENDS Integers, Sequences, FiniteSets, TLC

VARIABLES
    \* ---- getHtmlFromUrl (one call) ----
    fpc,          \* position of the call: idle/request/sleep/throttle/returned/thrown
    attempt,      \* loop variable `attempt`
    requests,     \* number of fetch() calls issued by this call
    outcomes,     \* what each attempt met, in order (observation of the run)
    lastError,    \* local `lastError` (NoError models null)
    delay,        \* ms handed to sleep() before the next attempt
    retryAfterHeader, \* Retry-After header of the response whose retry is waited for
    flog,         \* events sent to the logger, in order
    \* ---- ArticleInsightsChain.generateInsights (one call) ----
    ipc,          \* idle/pass/score/decide/done/rejected
    articles,     \* provider.unscoredArticles
    tags,         \* provider.tags, the running tag vocabulary
    ci,           \* index of classifyArticles' loop
    ii,           \* index of extractImageContext's loop
    si,           \* index of determineImportance's loop
    generatedTags,
    generatedImageContextList,
    mergedArticles,
    determinedArticles,
    current,      \* the accumulator handed to reprocess()
    iteration,    \* reprocess()'s iteration argument
    passes,       \* number of chain.invoke({}) started so far
    passTrace,    \* model calls of the running pass: which article, which outcome
    ilog,         \* loop-level events sent to the logger
    \* ---- CrawlingChain.executeGroupPipeline (one group) ----
    gpc,              \* idle/running/resolved/rejected: the group's promise
    targetCount,      \* group.targets.length
    stopAfterAttempt, \* options.chain.stopAfterAttempt
    providerMaxConcurrency, \* provider.maxConcurrency as configured: <<>> or <<n>>
    maxConcurrency,   \* provider.maxConcurrency after the constructor
    pipeline,         \* per target: stage reached, executions made, value piped
    groupResult,      \* what executeGroupPipeline resolved with
    \* ---- GenerateNewsletter.generate (one call) ----
    opc,              \* position of the call, see GenerateNext
    taskId,           \* this.taskId, set from what taskService.start() resolved with
    previewNewsletterOptions, \* TRUE when options.previewNewsletter is set
    startCalls,       \* calls of taskService.start()
    endCalls,         \* calls of taskService.end()
    stagesBegun,      \* macro-stages begun, in order
    pipelineOutcome,  \* pending/resolved/rejected: the macro-pipeline
    newsletterId,     \* what the macro-pipeline produced
    previewCalls,     \* calls made for the preview, in order
    olog,             \* events sent to the logger, in order
    generateResult,   \* what generate() settled with
    \* ---- LoggingExecutor.executeWithLogging ----
    lpc,              \* position in executeWithLogging
    config,           \* the ExecuteWithLoggingConfig of the call
    llog,             \* the calls made on the logger, in order
    fnCalls,          \* number of invocations of fn
    fnOutcome,        \* what fn's promise settled with
    doneFieldsCalls,  \* number of invocations of config.doneFields
    callResult,       \* what executeWithLogging settled with
    \* ---- ContentGenerateChain ----
    cpc,                  \* stage of the content chain, or its end
    publicationCriteria,  \* provider.publicationCriteria: each field <<>> or <<n>>
    htmlTemplate,         \* provider.htmlTemplate.html
    contentStopAfterAttempt, \* options.chain.stopAfterAttempt
    contentAttempts,      \* executions of the sequence started so far
    candidateArticles,    \* importance scores of the fetched candidates
    decision,             \* what generateCoreContent decided in this execution
    generatedCoreContent, \* the core content, or Null
    renderedHtml,         \* html: the rendered template, or Null
    saveNewsletterCalls,  \* calls of provider.saveNewsletter
    createdNewsletterId,  \* what the chain resolved with as newsletterId
    \* ---- the accumulator update of reprocess(), applied to given inputs ----
    upc,                  \* "idle", "input" or "applied"
    updCurrent,           \* the accumulator handed to the update
    reprocessedArticles,  \* the articles the reprocessing pass resolved with
    updated,       \* the accumulator the update yields
    \* ---- determineImportance, one article ----
    spc,                          \* "idle", "start", "await" or "pushed"
    minimumImportanceScoreRules,  \* determineScoreOptions.minimumImportanceScoreRules
    targetArticle,                \* the merged article being scored
    requestedRange,               \* the range the prompts ask the model for
    modelOutput,                  \* output.importanceScore of the model, <<>> or <<n>>
    importanceScore,              \* the score pushed with the article
    \* ---- one target's list-page fetches over the executions of its pipeline ----
    listExecutions,        \* executions of the target's pipeline begun so far
    listStopAfterAttempt,  \* options.chain.stopAfterAttempt
    listRequests           \* requests issued by the list-page fetches that ended

fetchVars == <<fpc, attempt, requests, outcomes, lastError, delay,
              retryAfterHeader, flog>>

insightVars == <<ipc, articles, tags, ci, ii, si, generatedTags,
                 generatedImageContextList, mergedArticles, determinedArticles,
                 current, iteration, passes, passTrace, ilog>>

crawlVars == <<gpc, targetCount, stopAfterAttempt, providerMaxConcurrency,
               maxConcurrency, pipeline,
               groupResult>>

generateVars == <<opc, taskId, previewNewsletterOptions, startCalls, endCalls,
                  stagesBegun, pipelineOutcome, newsletterId, previewCalls,
                  olog, generateResult>>

loggingVars == <<lpc, config, llog, fnCalls, fnOutcome, doneFieldsCalls,
                 callResult>>

contentVars == <<cpc, publicationCriteria, htmlTemplate,
                 contentStopAfterAttempt, contentAttempts, candidateArticles,
                 decision, generatedCoreContent, renderedHtml, saveNewsletterCalls,
                 createdNewsletterId>>

updateVars == <<upc, updCurrent, reprocessedArticles, updated>>

scoreVars == <<spc, minimumImportanceScoreRules, targetArticle, requestedRange,
               modelOutput, importanceScore>>

listVars == <<listExecutions, listStopAfterAttempt, listRequests>>

vars == <<fetchVars, insightVars, crawlVars, generateVars, loggingVars,
          contentVars, updateVars, scoreVars, listVars>>

\* what a step of one component leaves alone
notFetchVars ==
    <<insightVars, crawlVars, generateVars, loggingVars, contentVars,
      updateVars, scoreVars,
      listVars>>
notInsightVars ==
    <<fetchVars, crawlVars, generateVars, loggingVars, contentVars,
      updateVars, scoreVars,
      listVars>>
notCrawlVars ==
    <<fetchVars, insightVars, generateVars, loggingVars, contentVars,
      updateVars, scoreVars,
      listVars>>
notGenerateVars ==
    <<fetchVars, insightVars, crawlVars, loggingVars, contentVars,
      updateVars, scoreVars,
      listVars>>
notLoggingVars ==
    <<fetchVars, insightVars, crawlVars, generateVars, contentVars,
      updateVars, scoreVars,
      listVars>>
notScoreVars ==
    <<fetchVars, insightVars, crawlVars, generateVars, loggingVars,
      contentVars, updateVars,
      listVars>>
notUpdateVars ==
    <<fetchVars, insightVars, crawlVars, generateVars, loggingVars,
      contentVars, scoreVars,
      listVars>>
notContentVars ==
    <<fetchVars, insightVars, crawlVars, generateVars, loggingVars,
      updateVars, scoreVars,
      listVars>>

(***************************************************************************)
(* Resilient fetcher: src/src/generate-newsletter/utils/get-html-from-url  *)
(***************************************************************************)

maxRetries == 5

NoError == [isError |-> FALSE, words |-> {"<null>"}]

\* Values a rejected fetch()/text() can carry.  An Error is modelled by the set of
\* lowercase words of its message; a non-Error value (the abort reason string the
\* AbortController is given) by the words String(value) yields.
FetchFailed   == [isError |-> TRUE,  words |-> {"fetch", "failed"}]
AbortedError  == [isError |-> TRUE,  words |-> {"this", "operation", "was", "aborted"}]
OtherError    == [isError |-> TRUE,  words |-> {"boom"}]
ReasonString  == [isError |-> FALSE, words |-> {"timeout", "after", "ms"}]
Rejections    == {FetchFailed, AbortedError, OtherError, ReasonString}

Statuses      == {200, 304, 404, 429, 500}
IsOk(status)  == status >= 200 /\ status <= 299

\* Retry-After header values: absent, a number of seconds, an HTTP date (given by
\* its distance to Date.now() in ms), or text that is neither.
NoHeader      == [form |-> "none", value |-> 0]
Headers       == {NoHeader, [form |-> "garbage", value |-> 0]}
                 \cup {[form |-> "seconds", value |-> s] : s \in {-5, 3, 120}}
                 \cup {[form |-> "date", value |-> d] : d \in {-1000, 5000, 90000}}
Jitters       == {0, 999}

Max(a, b) == IF a >= b THEN a ELSE b
Min(a, b) == IF a <= b THEN a ELSE b

clamp(n, min, max) == Max(min, Min(max, n))

RECURSIVE Pow2(_)
Pow2(n) == IF n = 0 THEN 1 ELSE 2 * Pow2(n - 1)

\* parseRetryAfter without its clamp
parseRetryAfter_NoClamp(header) ==
    CASE header.form = "none"    -> -1
      [] header.form = "seconds" -> Max(0, header.value * 1000)
      [] header.form = "date"    -> IF header.value > 0 THEN header.value ELSE -1
      [] OTHER                   -> -1

\* null is modelled by -1 (every parsed value is clamped to 0..60000)
parseRetryAfter(header) ==
    CASE header.form = "none"    -> -1
      [] header.form = "seconds" -> clamp(header.value * 1000, 0, 60000)
      [] header.form = "date"    -> IF header.value > 0
                                    THEN clamp(header.value, 0, 60000)
                                    ELSE -1
      [] OTHER                   -> -1

\* shouldRetry without the line that makes a client error fatal
shouldRetry_Any4xx(status, error) ==
    IF status /= 0 /\ status >= 400 THEN TRUE
    ELSE IF error.isError
         THEN \E w \in {"aborted", "timeout", "network", "fetch"} : w \in error.words
         ELSE FALSE

\* status = 0 models the null status of the catch branch
shouldRetry(status, error) ==
    IF status = 429 THEN TRUE
    ELSE IF status /= 0 /\ status >= 500 THEN TRUE
    ELSE IF status /= 0 /\ status >= 400 /\ status < 500 THEN FALSE
    ELSE IF error.isError
         THEN \E w \in {"aborted", "timeout", "network", "fetch"} : w \in error.words
         ELSE FALSE

backoffMs(att, jitter) == Pow2(att - 1) * 1000 + jitter

\* error instanceof Error ? error : new Error(String(error))
AsError(error) == [isError |-> TRUE, words |-> error.words]

\* new Error(`Request failed (status=${status}) - ${url}`)
StatusError(status) ==
    [isError |-> TRUE, words |-> {"request", "failed", "status", ToString(status)}]

Outcome(kind, status, error) == [kind |-> kind, status |-> status, error |-> error]

FetchIdle ==
    /\ fpc = "idle"
    /\ attempt = 1
    /\ requests = 0
    /\ outcomes = <<>>
    /\ lastError = NoError
    /\ delay = 0
    /\ retryAfterHeader = NoHeader
    /\ flog = <<>>

FetchStart ==
    /\ fpc = "request"
    /\ attempt = 1
    /\ requests = 0
    /\ outcomes = <<>>
    /\ lastError = NoError
    /\ delay = 0
    /\ retryAfterHeader = NoHeader
    /\ flog = <<>>

\* the non-OK branch without the `attempt === maxRetries` test
NonOkBranch_NoLastAttemptTest(status, header, jitter) ==
    LET retryAfterMs == parseRetryAfter(header)
        canRetry     == shouldRetry(status, NoError)
        backoff      == backoffMs(attempt, jitter)
    IN  /\ flog' = Append(flog, "fetch.error")
        /\ IF ~canRetry
           THEN /\ lastError' = StatusError(status)
                /\ fpc' = "thrown"
                /\ delay' = delay
           ELSE /\ delay' = IF retryAfterMs /= -1 THEN Max(retryAfterMs, backoff)
                                                 ELSE backoff
                /\ fpc' = "sleep"
                /\ lastError' = lastError

\* try-branch, response.ok false (lines 108-127)
NonOkBranch(status, header, jitter) ==
    LET retryAfterMs == parseRetryAfter(header)
        canRetry     == shouldRetry(status, NoError)
        backoff      == backoffMs(attempt, jitter)
    IN  /\ flog' = Append(flog, "fetch.error")
        /\ IF ~canRetry \/ attempt = maxRetries
           THEN /\ lastError' = StatusError(status)
                /\ fpc' = "thrown"          \* break; throw lastError (line 173)
                /\ delay' = delay
           ELSE /\ delay' = IF retryAfterMs /= -1 THEN Max(retryAfterMs, backoff)
                                                 ELSE backoff
                /\ fpc' = "sleep"
                /\ lastError' = lastError

\* the catch branch without its terminal log
CatchBranch_NoFailedLog(error, jitter) ==
    LET canRetry == shouldRetry(0, error)
    IN  /\ lastError' = AsError(error)
        /\ flog' = Append(flog, "fetch.catch")
        /\ IF ~canRetry \/ attempt = maxRetries
           THEN /\ fpc' = "thrown"
                /\ delay' = delay
           ELSE /\ delay' = backoffMs(attempt, jitter)
                /\ fpc' = "sleep"

\* catch-branch (lines 149-169)
CatchBranch(error, jitter) ==
    LET canRetry == shouldRetry(0, error)
    IN  /\ lastError' = AsError(error)
        /\ IF ~canRetry \/ attempt = maxRetries
           THEN /\ flog' = flog \o <<"fetch.catch", "fetch.failed">>
                /\ fpc' = "thrown"
                /\ delay' = delay
           ELSE /\ flog' = Append(flog, "fetch.catch")
                /\ delay' = backoffMs(attempt, jitter)
                /\ fpc' = "sleep"

\* response.ok: log, read the body, throttle (lines 129-148)
OkBranch(contentIsHtml) ==
    /\ flog' = flog \o (IF contentIsHtml THEN <<>> ELSE <<"fetch.nonHtml">>)
                    \o <<"fetch.success">>
    /\ fpc' = "throttle"
    /\ delay' = 250
    /\ lastError' = lastError

\* One iteration of the for loop: fetch() is called and answered.
FetchResponse ==
    /\ UNCHANGED notFetchVars
    /\ fpc = "request"
    /\ requests' = requests + 1
    /\ attempt' = attempt
    /\ \E status \in Statuses, header \in Headers, jitter \in Jitters, html \in BOOLEAN :
          /\ outcomes' = Append(outcomes, Outcome("response", status, NoError))
          /\ IF IsOk(status) THEN OkBranch(html)
                             ELSE NonOkBranch(status, header, jitter)
          /\ retryAfterHeader' = IF fpc' = "sleep" THEN header ELSE NoHeader

\* fetch() rejects (network failure, abort by the per-attempt timeout)
FetchReject ==
    /\ UNCHANGED notFetchVars
    /\ fpc = "request"
    /\ requests' = requests + 1
    /\ attempt' = attempt
    /\ \E error \in Rejections, jitter \in Jitters :
          /\ outcomes' = Append(outcomes, Outcome("reject", 0, error))
          /\ CatchBranch(error, jitter)
    /\ retryAfterHeader' = NoHeader

\* fetch() answers 2xx but response.text() rejects inside the try block
FetchBodyReject ==
    /\ UNCHANGED notFetchVars
    /\ fpc = "request"
    /\ requests' = requests + 1
    /\ attempt' = attempt
    /\ \E error \in {FetchFailed, OtherError}, jitter \in Jitters :
          /\ outcomes' = Append(outcomes, Outcome("bodyReject", 200, error))
          /\ CatchBranch(error, jitter)
    /\ retryAfterHeader' = NoHeader

\* sleep(delay) ends; attempt++ and the loop condition (line 73), else line 173
FetchWake ==
    /\ UNCHANGED notFetchVars
    /\ fpc = "sleep"
    /\ attempt' = attempt + 1
    /\ fpc' = IF attempt + 1 <= maxRetries THEN "request" ELSE "thrown"
    /\ delay' = 0
    /\ retryAfterHeader' = NoHeader
    /\ UNCHANGED <<requests, outcomes, lastError, flog>>

\* the post-success sleep ends and the body is returned (lines 145-148)
FetchReturn ==
    /\ UNCHANGED notFetchVars
    /\ fpc = "throttle"
    /\ fpc' = "returned"
    /\ delay' = 0
    /\ UNCHANGED <<attempt, requests, outcomes, lastError, retryAfterHeader, flog>>

FetchNext ==
    \/ FetchResponse
    \/ FetchReject
    \/ FetchBodyReject
    \/ FetchWake
    \/ FetchReturn

(***************************************************************************)
(* Enrichment loop: ArticleInsightsChain                                   *)
(* src/src/generate-newsletter/utils/get-html-from-url.ts, lines 349-822   *)
(***************************************************************************)

maxIterations == 5

\* number of articles fetchUnscoredArticles() returns, at most
MaxArticles == 2

Null    == "<null>"
NoScore == 0

\* !tag, !imageContextByLlm: null and the empty string are falsy
Falsy(v) == v \in {Null, ""}

Range(seq) == {seq[k] : k \in 1..Len(seq)}

\* The articles a provider hands over, by kind: one lacks tag3 and has an image
\* that was not analysed yet, one is fully tagged and already has its image
\* context, one has no tag and no image.
UnscoredArticle(i, kind) ==
    CASE kind = 1 -> [id |-> i, tag1 |-> "x", tag2 |-> "y", tag3 |-> Null,
                       hasAttachedImage |-> TRUE, imageContextByLlm |-> Null,
                       importanceScore |-> NoScore]
      [] kind = 2 -> [id |-> i, tag1 |-> "x", tag2 |-> "y", tag3 |-> "z",
                       hasAttachedImage |-> TRUE, imageContextByLlm |-> "seen",
                       importanceScore |-> NoScore]
      [] OTHER -> [id |-> i, tag1 |-> Null, tag2 |-> Null, tag3 |-> Null,
                       hasAttachedImage |-> FALSE, imageContextByLlm |-> Null,
                       importanceScore |-> NoScore]

\* The batches tried: kinds 1, 3, 2 in turn, or 2, 1, 3 in turn.
KindAt(k, start) == <<1, 3, 2>>[((start + k - 2) % 3) + 1]

\* What the models may answer.  ClassifyTags' schema is three z.string(), which
\* admits the empty string; AnalyzeImages returns a string or null;
\* DetermineArticleImportance's schema is z.number().min(1).max(10).
ClassifyResults == {<<"x", "y", "z">>, <<"x", "y", "">>}
ImageResults    == {"ctx", Null}
ScoreResults    == {10}

EmptyTrace == [classifyCalled |-> {}, classifyFailed |-> {},
               imageCalled |-> {}, imageFailed |-> {}, scoreFailed |-> {},
               existTags |-> <<>>]

HasAllTags(a) == ~Falsy(a.tag1) /\ ~Falsy(a.tag2) /\ ~Falsy(a.tag3)

\* reprocess(): !tag1 || !tag2 || !tag3 || !importanceScore
Incomplete(a) == ~HasAllTags(a) \/ a.importanceScore = NoScore

\* Array.prototype.find by id: the index of the first match, 0 for undefined
FindById(seq, id) ==
    IF \E k \in 1..Len(seq) : seq[k].id = id
    THEN CHOOSE k \in 1..Len(seq) :
            /\ seq[k].id = id
            /\ \A j \in 1..(k - 1) : seq[j].id /= id
    ELSE 0

\* pushTag without the test for a tag that is already there
pushTag_Always(vocabulary, tag) ==
    IF ~Falsy(tag) THEN Append(vocabulary, tag) ELSE vocabulary

\* if (tag && !this.provider.tags.includes(tag)) this.provider.tags.push(tag)
pushTag(vocabulary, tag) ==
    IF ~Falsy(tag) /\ tag \notin Range(vocabulary)
    THEN Append(vocabulary, tag)
    ELSE vocabulary

mergeTagsAndImageContext(arts, gTags, gImages) ==
    [k \in 1..Len(arts) |->
        LET article == arts[k]
            t == FindById(gTags, article.id)
            c == FindById(gImages, article.id)
            tagged == IF t /= 0
                      THEN [article EXCEPT !.tag1 = gTags[t].tag1,
                                           !.tag2 = gTags[t].tag2,
                                           !.tag3 = gTags[t].tag3]
                      ELSE article
        IN  IF c /= 0
            THEN [tagged EXCEPT !.imageContextByLlm = gImages[c].imageContextByLlm]
            ELSE tagged]

\* the reprocessed articles taken by position instead of by id
UpdateCurrent_ByPosition(cur, reprocessed) ==
    [k \in 1..Len(cur) |->
        IF k <= Len(reprocessed) THEN reprocessed[k] ELSE cur[k]]

\* the accumulator without the replacement by the reprocessed articles
UpdateCurrent_KeepOld(cur, reprocessed) ==
    cur

\* current.map(article => reprocessed.find(same id) || article)
UpdateCurrent(cur, reprocessed) ==
    [k \in 1..Len(cur) |->
        LET r == FindById(reprocessed, cur[k].id)
        IN  IF r /= 0 THEN reprocessed[r] ELSE cur[k]]

InsightsIdle ==
    /\ ipc = "idle"
    /\ articles = <<>>
    /\ tags = <<>>
    /\ ci = 1 /\ ii = 1 /\ si = 1
    /\ generatedTags = <<>>
    /\ generatedImageContextList = <<>>
    /\ mergedArticles = <<>>
    /\ determinedArticles = <<>>
    /\ current = <<>>
    /\ iteration = 0
    /\ passes = 0
    /\ passTrace = EmptyTrace
    /\ ilog = <<>>

\* generateInsights is entered: the first chain.invoke({}) starts (line 419)
InsightsStart ==
    /\ ipc = "pass"
    /\ \E n \in 0..MaxArticles, start \in {1, 3} :
          articles = [k \in 1..n |-> UnscoredArticle(k, KindAt(k, start))]
    /\ tags = <<"x">>
    /\ ci = 1 /\ ii = 1 /\ si = 1
    /\ generatedTags = <<>>
    /\ generatedImageContextList = <<>>
    /\ mergedArticles = <<>>
    /\ determinedArticles = <<>>
    /\ current = <<>>
    /\ iteration = 0
    /\ passes = 1
    /\ passTrace = EmptyTrace
    /\ ilog = <<>>

\* classifyArticles: the article already has its three tags (lines 512-514)
ClassifySkip ==
    /\ UNCHANGED notInsightVars
    /\ ipc = "pass"
    /\ ci <= Len(articles)
    /\ HasAllTags(articles[ci])
    /\ ci' = ci + 1
    /\ UNCHANGED <<ipc, articles, tags, ii, si, generatedTags,
                   generatedImageContextList, mergedArticles, determinedArticles,
                   current, iteration, passes, passTrace, ilog>>

\* classifyTags.execute resolved (lines 535-554)
ClassifyResolved(result) ==
    /\ tags' = pushTag(pushTag(pushTag(tags, result[1]), result[2]), result[3])
    /\ generatedTags' = Append(generatedTags,
                               [id |-> articles[ci].id, tag1 |-> result[1],
                                tag2 |-> result[2], tag3 |-> result[3]])
    /\ ci' = ci + 1
    /\ ipc' = ipc
    /\ passTrace' = [passTrace EXCEPT
                        !.classifyCalled = @ \cup {ci},
                        !.existTags = Append(@, [at |-> ci, tags |-> tags])]

\* classifyArticles without its try/catch: the rejection leaves the pass
ClassifyRejected_Rethrow ==
    /\ UNCHANGED <<tags, generatedTags, ci>>
    /\ ipc' = "rejected"
    /\ passTrace' = [passTrace EXCEPT
                        !.classifyCalled = @ \cup {ci},
                        !.classifyFailed = @ \cup {ci},
                        !.existTags = Append(@, [at |-> ci, tags |-> tags])]

\* classifyTags.execute rejected: the catch block logs and goes on (lines 555-568)
ClassifyRejected ==
    /\ UNCHANGED <<tags, generatedTags, ipc>>
    /\ ci' = ci + 1
    /\ passTrace' = [passTrace EXCEPT
                        !.classifyCalled = @ \cup {ci},
                        !.classifyFailed = @ \cup {ci},
                        !.existTags = Append(@, [at |-> ci, tags |-> tags])]

\* classifyArticles without the test for the three tags
ClassifyCall_Unconditional ==
    /\ UNCHANGED notInsightVars
    /\ ipc = "pass"
    /\ ci <= Len(articles)
    /\ \/ \E result \in ClassifyResults : ClassifyResolved(result)
       \/ ClassifyRejected
    /\ UNCHANGED <<articles, ii, si, generatedImageContextList, mergedArticles,
                   determinedArticles, current, iteration, passes, ilog>>

ClassifyCall ==
    /\ UNCHANGED notInsightVars
    /\ ipc = "pass"
    /\ ci <= Len(articles)
    /\ ~HasAllTags(articles[ci])
    /\ \/ \E result \in ClassifyResults : ClassifyResolved(result)
       \/ ClassifyRejected
    /\ UNCHANGED <<articles, ii, si, generatedImageContextList, mergedArticles,
                   determinedArticles, current, iteration, passes, ilog>>

\* extractImageContext: no image, or context already there (lines 587-609)
ImageSkip ==
    /\ UNCHANGED notInsightVars
    /\ ipc = "pass"
    /\ ii <= Len(articles)
    /\ \/ ~articles[ii].hasAttachedImage
       \/ ~Falsy(articles[ii].imageContextByLlm)
    /\ ii' = ii + 1
    /\ UNCHANGED <<ipc, articles, tags, ci, si, generatedTags,
                   generatedImageContextList, mergedArticles, determinedArticles,
                   current, iteration, passes, passTrace, ilog>>

\* analyzeImages.execute resolved (lines 628-653)
ImageResolved(context) ==
    /\ generatedImageContextList' =
          IF ~Falsy(context)
          THEN Append(generatedImageContextList,
                      [id |-> articles[ii].id, imageContextByLlm |-> context])
          ELSE generatedImageContextList
    /\ ii' = ii + 1
    /\ ipc' = ipc
    /\ passTrace' = [passTrace EXCEPT !.imageCalled = @ \cup {ii}]

\* analyzeImages.execute rejected: caught, logged (lines 654-666)
ImageRejected ==
    /\ UNCHANGED <<generatedImageContextList, ipc>>
    /\ ii' = ii + 1
    /\ passTrace' = [passTrace EXCEPT !.imageCalled = @ \cup {ii},
                                      !.imageFailed = @ \cup {ii}]

ImageCall ==
    /\ UNCHANGED notInsightVars
    /\ ipc = "pass"
    /\ ii <= Len(articles)
    /\ articles[ii].hasAttachedImage
    /\ Falsy(articles[ii].imageContextByLlm)
    /\ \/ \E context \in ImageResults : ImageResolved(context)
       \/ ImageRejected
    /\ UNCHANGED <<articles, tags, ci, si, generatedTags, mergedArticles,
                   determinedArticles, current, iteration, passes, ilog>>

\* both branches of the first step are done: mergeTagsAndImageContext runs
MergeStep ==
    /\ UNCHANGED notInsightVars
    /\ ipc = "pass"
    /\ ci > Len(articles)
    /\ ii > Len(articles)
    /\ mergedArticles' = mergeTagsAndImageContext(articles, generatedTags,
                                                  generatedImageContextList)
    /\ ipc' = "score"
    /\ UNCHANGED <<articles, tags, ci, ii, si, generatedTags,
                   generatedImageContextList, determinedArticles, current,
                   iteration, passes, passTrace, ilog>>

\* determineArticleImportance.execute resolved (lines 756-779)
ScoreResolved(score) ==
    /\ determinedArticles' =
          Append(determinedArticles,
                 [mergedArticles[si] EXCEPT !.importanceScore = score])
    /\ si' = si + 1
    /\ ipc' = ipc
    /\ passTrace' = passTrace

\* the catch block of determineImportance leaving the article out
ScoreRejected_DropsArticle ==
    /\ determinedArticles' = determinedArticles
    /\ si' = si + 1
    /\ ipc' = ipc
    /\ passTrace' = [passTrace EXCEPT !.scoreFailed = @ \cup {si}]

\* the catch block of determineImportance without the fallback score
ScoreRejected_NoFallback ==
    /\ determinedArticles' = Append(determinedArticles, mergedArticles[si])
    /\ si' = si + 1
    /\ ipc' = ipc
    /\ passTrace' = [passTrace EXCEPT !.scoreFailed = @ \cup {si}]

\* determineArticleImportance.execute rejected: fallback score (lines 780-801)
ScoreRejected ==
    /\ determinedArticles' =
          Append(determinedArticles,
                 [mergedArticles[si] EXCEPT !.importanceScore = 1])
    /\ si' = si + 1
    /\ ipc' = ipc
    /\ passTrace' = [passTrace EXCEPT !.scoreFailed = @ \cup {si}]

ScoreCall ==
    /\ UNCHANGED notInsightVars
    /\ ipc = "score"
    /\ si <= Len(mergedArticles)
    /\ \/ \E score \in ScoreResults : ScoreResolved(score)
       \/ ScoreRejected
    /\ UNCHANGED <<articles, tags, ci, ii, generatedTags,
                   generatedImageContextList, mergedArticles, current, iteration,
                   passes, ilog>>

\* chain.invoke({}) resolves with determinedArticles: the first pass gives
\* `initial` (line 419), a later one is folded into the accumulator and
\* reprocess is called with iteration + 1 (lines 467-487)
PassEnd ==
    /\ UNCHANGED notInsightVars
    /\ ipc = "score"
    /\ si > Len(mergedArticles)
    /\ IF passes = 1
       THEN /\ current' = determinedArticles
            /\ iteration' = 0
            /\ ilog' = ilog
       ELSE /\ current' = UpdateCurrent(current, determinedArticles)
            /\ iteration' = iteration + 1
            /\ ilog' = Append(ilog, "insights.incomplete.restart.done")
    /\ ipc' = "decide"
    /\ UNCHANGED <<articles, tags, ci, ii, si, generatedTags,
                   generatedImageContextList, mergedArticles, determinedArticles,
                   passes, passTrace>>

\* reprocess: iteration >= maxIterations (lines 427-438)
ReprocessCapReached ==
    /\ UNCHANGED notInsightVars
    /\ ipc = "decide"
    /\ iteration >= maxIterations
    /\ ilog' = Append(ilog, "insights.warning.maxIterationsReached")
    /\ ipc' = "done"
    /\ UNCHANGED <<articles, tags, ci, ii, si, generatedTags,
                   generatedImageContextList, mergedArticles, determinedArticles,
                   current, iteration, passes, passTrace>>

\* reprocess invoking the chain although nothing is incomplete
ReprocessComplete_RunsAgain ==
    /\ UNCHANGED notInsightVars
    /\ ipc = "decide"
    /\ iteration < maxIterations
    /\ \A k \in 1..Len(current) : ~Incomplete(current[k])
    /\ ilog' = Append(ilog, "insights.incomplete.restart")
    /\ ipc' = "pass"
    /\ passes' = passes + 1
    /\ ci' = 1 /\ ii' = 1 /\ si' = 1
    /\ generatedTags' = <<>>
    /\ generatedImageContextList' = <<>>
    /\ mergedArticles' = <<>>
    /\ determinedArticles' = <<>>
    /\ passTrace' = EmptyTrace
    /\ UNCHANGED <<articles, tags, current, iteration>>

\* reprocess: nothing is incomplete (lines 441-456)
ReprocessComplete ==
    /\ UNCHANGED notInsightVars
    /\ ipc = "decide"
    /\ iteration < maxIterations
    /\ \A k \in 1..Len(current) : ~Incomplete(current[k])
    /\ ilog' = Append(ilog, "insights.complete")
    /\ ipc' = "done"
    /\ UNCHANGED <<articles, tags, ci, ii, si, generatedTags,
                   generatedImageContextList, mergedArticles, determinedArticles,
                   current, iteration, passes, passTrace>>

\* reprocess: something is incomplete, the chain is invoked again (lines 458-468)
ReprocessRestart ==
    /\ UNCHANGED notInsightVars
    /\ ipc = "decide"
    /\ iteration < maxIterations
    /\ \E k \in 1..Len(current) : Incomplete(current[k])
    /\ ilog' = Append(ilog, "insights.incomplete.restart")
    /\ ipc' = "pass"
    /\ passes' = passes + 1
    /\ ci' = 1 /\ ii' = 1 /\ si' = 1
    /\ generatedTags' = <<>>
    /\ generatedImageContextList' = <<>>
    /\ mergedArticles' = <<>>
    /\ determinedArticles' = <<>>
    /\ passTrace' = EmptyTrace
    /\ UNCHANGED <<articles, tags, current, iteration>>

InsightsNext ==
    \/ ClassifySkip
    \/ ClassifyCall
    \/ ImageSkip
    \/ ImageCall
    \/ MergeStep
    \/ ScoreCall
    \/ PassEnd
    \/ ReprocessCapReached
    \/ ReprocessComplete
    \/ ReprocessRestart

(***************************************************************************)
(* Crawl group: CrawlingChain.executeGroupPipeline, src/unnamed/part_015   *)
(*                                                                         *)
(* The per-target chain is a langchain sequence closed by withRetry and    *)
(* driven by batch.  Both are library code; they are modelled by their     *)
(* contract: withRetry runs the whole sequence again, from its first       *)
(* stage, after any rejection, until stopAfterAttempt executions were      *)
(* made; batch runs the inputs in order with at most maxConcurrency in     *)
(* flight, resolves with every output once all inputs resolved and, called *)
(* without returnExceptions, rejects as soon as one input is beyond retry. *)
(* A rejected batch cancels nothing: its other inputs may still run.       *)
(***************************************************************************)

MaxTargets == 2

StopAfterAttempts == {1, 2}

MaxConcurrencies == {1, 2}

DefaultMaxConcurrency == 5

\* provider.maxConcurrency ??= 5
withDefaultConcurrency(configured) ==
    IF configured = <<>> THEN DefaultMaxConcurrency ELSE configured[1]

\* the values target.parseList() is taken to produce: the detailUrl of each item
ParsedLists == {<<"a", "b">>, <<"b">>}

\* a pipelineId no list item carries
ForeignId == 0

Targets == 1..targetCount

\* what a target's pipeline holds before batch starts it
NoPipeline ==
    [pc |-> "waiting", attempts |-> 0,
     parsedList |-> <<>>, list |-> <<>>,
     detailPagesHtmlWithPipelineId |-> <<>>, parsedDetails |-> <<>>,
     processedArticles |-> <<>>, count |-> 0,
     lookupDone |-> FALSE,    \* fetchExistingArticlesByUrls returned in this execution
     lookedUp |-> {},         \* the detailUrls it returned
     detailFetched |-> {},    \* detailUrls handed to getHtmlFromUrl in this execution
     mismatchAt |-> 0,        \* execution in which the merge first met a mismatch
     saves |-> 0,             \* saveCrawledArticles calls of the target that resolved
     detailFailed |-> FALSE]  \* the error withRetry rethrew at the end came from
                              \* fetchDetailPagesHtml or parseDetailPagesHtml

\* a new execution of the sequence: nothing of the previous one is kept
FirstStage(p) ==
    [NoPipeline EXCEPT !.pc = "fetchListPageHtml",
                       !.attempts = p.attempts + 1,
                       !.mismatchAt = p.mismatchAt,
                       !.saves = p.saves]

InFlight == {t \in Targets : pipeline[t].pc \notin {"waiting", "ok", "failed"}}

RECURSIVE SumCounts(_, _)
SumCounts(results, n) ==
    IF n = 0 THEN 0 ELSE SumCounts(results, n - 1) + results[n].count

\* await chain.batch(...) and the reduce over its results
GroupSettles(next) ==
    IF gpc /= "running"
    THEN UNCHANGED <<gpc, groupResult>>
    ELSE IF \E t \in Targets : next[t].pc = "failed"
    THEN gpc' = "rejected" /\ UNCHANGED groupResult
    ELSE IF \A t \in Targets : next[t].pc = "ok"
    THEN gpc' = "resolved" /\ groupResult' = SumCounts(next, targetCount)
    ELSE UNCHANGED <<gpc, groupResult>>

Advance(t, p) ==
    /\ pipeline' = [pipeline EXCEPT ![t] = p]
    /\ GroupSettles(pipeline')
    /\ UNCHANGED <<targetCount, stopAfterAttempt, providerMaxConcurrency,
                   maxConcurrency>>

StageThrows_SameStage(t, mismatch) ==
    LET p == pipeline[t]
        m == IF mismatch /\ p.mismatchAt = 0 THEN p.attempts ELSE p.mismatchAt
    IN  IF p.attempts < stopAfterAttempt
        THEN Advance(t, [p EXCEPT !.attempts = p.attempts + 1, !.mismatchAt = m])
        ELSE Advance(t, [NoPipeline EXCEPT !.pc = "failed",
                                           !.attempts = p.attempts,
                                           !.mismatchAt = m,
                                           !.saves = p.saves,
                                           !.detailFailed =
                                               p.pc \in {"fetchDetailPagesHtml",
                                                         "parseDetailPagesHtml"}])

\* a stage rejected: executeWithLogging rethrows, withRetry decides
StageThrows(t, mismatch) ==
    LET p == pipeline[t]
        m == IF mismatch /\ p.mismatchAt = 0 THEN p.attempts ELSE p.mismatchAt
    IN  IF p.attempts < stopAfterAttempt
        THEN Advance(t, FirstStage([p EXCEPT !.mismatchAt = m]))
        ELSE Advance(t, [NoPipeline EXCEPT !.pc = "failed",
                                           !.attempts = p.attempts,
                                           !.mismatchAt = m,
                                           !.saves = p.saves,
                                           !.detailFailed =
                                               p.pc \in {"fetchDetailPagesHtml",
                                                         "parseDetailPagesHtml"}])

CrawlIdle ==
    /\ gpc = "idle"
    /\ targetCount = 0
    /\ stopAfterAttempt = 1
    /\ providerMaxConcurrency = <<>>
    /\ maxConcurrency = 1
    /\ pipeline = <<>>
    /\ groupResult = 0

CrawlStart ==
    /\ gpc = "running"
    /\ targetCount \in 1..MaxTargets
    /\ stopAfterAttempt \in StopAfterAttempts
    /\ providerMaxConcurrency \in {<<>>} \cup {<<n>> : n \in MaxConcurrencies}
    /\ maxConcurrency = withDefaultConcurrency(providerMaxConcurrency)
    /\ pipeline = [t \in 1..targetCount |-> NoPipeline]
    /\ groupResult = 0

\* batch without its concurrency limit
BatchStart_Unbounded(t) ==
    /\ gpc /= "idle"
    /\ pipeline[t].pc = "waiting"
    /\ \A u \in Targets : u < t => pipeline[u].pc /= "waiting"
    /\ Advance(t, FirstStage(pipeline[t]))
    /\ UNCHANGED notCrawlVars

\* batch takes the inputs in order, at most maxConcurrency at a time
BatchStart(t) ==
    /\ gpc /= "idle"
    /\ pipeline[t].pc = "waiting"
    /\ \A u \in Targets : u < t => pipeline[u].pc /= "waiting"
    /\ Cardinality(InFlight) < maxConcurrency
    /\ Advance(t, FirstStage(pipeline[t]))
    /\ UNCHANGED notCrawlVars

FetchListPageHtml(t) ==
    /\ pipeline[t].pc = "fetchListPageHtml"
    /\ \/ Advance(t, [pipeline[t] EXCEPT !.pc = "parseListPageHtml"])
       \/ StageThrows(t, FALSE)
    /\ UNCHANGED notCrawlVars

\* every item gets a pipelineId of its own; within one execution the items
\* are told apart by their position in the parsed list
ParseListPageHtml(t) ==
    /\ pipeline[t].pc = "parseListPageHtml"
    /\ \/ \E items \in ParsedLists :
            Advance(t, [pipeline[t] EXCEPT
                !.pc = "dedupeListItems",
                !.parsedList = [k \in 1..Len(items) |->
                                  [detailUrl |-> items[k], pipelineId |-> k]]])
       \/ StageThrows(t, FALSE)
    /\ UNCHANGED notCrawlVars

dedupeFilter_DropsHead(parsedList, existingUrlSet) ==
    IF parsedList = <<>> THEN <<>> ELSE Tail(parsedList)

dedupeFilter_KeepAll(parsedList, existingUrlSet) ==
    parsedList

dedupeFilter(parsedList, existingUrlSet) ==
    SelectSeq(parsedList, LAMBDA item : item.detailUrl \notin existingUrlSet)

DedupeListItems(t) ==
    LET p == pipeline[t]
        asked == {p.parsedList[k].detailUrl : k \in 1..Len(p.parsedList)}
    IN  /\ p.pc = "dedupeListItems"
        /\ \/ \E existing \in {{}, {"a"} \cap asked} :
                Advance(t, [p EXCEPT
                    !.pc = "fetchDetailPagesHtml",
                    !.list = dedupeFilter(p.parsedList, existing),
                    !.parsedList = <<>>,
                    !.lookupDone = TRUE,
                    !.lookedUp = existing])
           \/ StageThrows(t, FALSE)
        /\ UNCHANGED notCrawlVars

\* Promise.allSettled in place of Promise.all: the page that failed is left
\* out and the stage resolves with the others
FetchDetailPagesHtml_KeepsFulfilled(t) ==
    LET p == pipeline[t]
    IN  /\ p.pc = "fetchDetailPagesHtml"
        /\ \/ Advance(t, [p EXCEPT
                !.pc = "parseDetailPagesHtml",
                !.detailFetched = {p.list[k].detailUrl : k \in 1..Len(p.list)},
                !.detailPagesHtmlWithPipelineId =
                    [k \in 1..Len(p.list) |->
                       [pipelineId |-> p.list[k].pipelineId,
                        html |-> p.list[k].detailUrl]]])
           \/ /\ p.list /= <<>>
              /\ Advance(t, [p EXCEPT
                    !.pc = "parseDetailPagesHtml",
                    !.detailFetched = {p.list[k].detailUrl : k \in 1..Len(p.list)},
                    !.detailPagesHtmlWithPipelineId =
                        [k \in 1..(Len(p.list) - 1) |->
                           [pipelineId |-> p.list[k + 1].pipelineId,
                            html |-> p.list[k + 1].detailUrl]]])
        /\ UNCHANGED notCrawlVars

\* getHtmlFromUrl is called for every item of `list`; the page of an item is
\* named after its detailUrl
FetchDetailPagesHtml(t) ==
    LET p == pipeline[t]
    IN  /\ p.pc = "fetchDetailPagesHtml"
        /\ \/ Advance(t, [p EXCEPT
                !.pc = "parseDetailPagesHtml",
                !.detailFetched = {p.list[k].detailUrl : k \in 1..Len(p.list)},
                !.detailPagesHtmlWithPipelineId =
                    [k \in 1..Len(p.list) |->
                       [pipelineId |-> p.list[k].pipelineId,
                        html |-> p.list[k].detailUrl]]])
           \/ /\ p.list /= <<>>
              /\ StageThrows(t, FALSE)
        /\ UNCHANGED notCrawlVars

\* { pipelineId, ...detail }: a pipelineId property of the parsed detail
\* itself replaces the one of the page (own = the first detail has one)
ParseDetailPagesHtml(t) ==
    LET p == pipeline[t]
        pages == p.detailPagesHtmlWithPipelineId
    IN  /\ p.pc = "parseDetailPagesHtml"
        /\ \/ \E own \in BOOLEAN :
                /\ own => pages /= <<>>
                /\ Advance(t, [p EXCEPT
                    !.pc = "mergeParsedArticles",
                    !.detailPagesHtmlWithPipelineId = <<>>,
                    !.parsedDetails =
                        [k \in 1..Len(pages) |->
                           [pipelineId |-> IF own /\ k = 1 THEN ForeignId
                                           ELSE pages[k].pipelineId,
                            content |-> pages[k].html]]])
           \/ /\ pages /= <<>>
              /\ StageThrows(t, FALSE)
        /\ UNCHANGED notCrawlVars

omit_Nothing(object, keys) ==
    object

\* es-toolkit omit: the object without the given keys
omit(object, keys) ==
    [key \in (DOMAIN object) \ keys |-> object[key]]

\* { ...a, ...b }: the keys of both, b's value where both have the key
spread(a, b) ==
    [key \in (DOMAIN a) \cup (DOMAIN b) |->
        IF key \in DOMAIN b THEN b[key] ELSE a[key]]

\* the merge as a map that leaves out the details no list item matches
MergeParsedArticles_DropsUnmatched(t) ==
    LET p == pipeline[t]
        ids == {p.list[k].pipelineId : k \in 1..Len(p.list)}
        listItem(id) == CHOOSE item \in {p.list[k] : k \in 1..Len(p.list)} :
                            item.pipelineId = id
        matched == SelectSeq(p.parsedDetails, LAMBDA d : d.pipelineId \in ids)
    IN  /\ p.pc = "mergeParsedArticles"
        /\ Advance(t, [p EXCEPT
                !.pc = "saveArticles",
                !.list = <<>>,
                !.parsedDetails = <<>>,
                !.processedArticles =
                    [k \in 1..Len(matched) |->
                       spread(omit(listItem(matched[k].pipelineId), {"pipelineId"}),
                              omit(matched[k], {"pipelineId"}))]])
        /\ UNCHANGED notCrawlVars

MergeParsedArticles(t) ==
    LET p == pipeline[t]
        ids == {p.list[k].pipelineId : k \in 1..Len(p.list)}
        listItem(id) == CHOOSE item \in {p.list[k] : k \in 1..Len(p.list)} :
                            item.pipelineId = id
    IN  /\ p.pc = "mergeParsedArticles"
        /\ IF \E k \in 1..Len(p.parsedDetails) : p.parsedDetails[k].pipelineId \notin ids
           THEN StageThrows(t, TRUE)
           ELSE Advance(t, [p EXCEPT
                    !.pc = "saveArticles",
                    !.list = <<>>,
                    !.parsedDetails = <<>>,
                    !.processedArticles =
                        [k \in 1..Len(p.parsedDetails) |->
                           spread(omit(listItem(p.parsedDetails[k].pipelineId),
                                       {"pipelineId"}),
                                  omit(p.parsedDetails[k], {"pipelineId"}))]])
        /\ UNCHANGED notCrawlVars

\* a stage after the save, which may throw once the save resolved
SaveArticles_NotLast(t) ==
    LET p == pipeline[t]
    IN  /\ p.pc = "saveArticles"
        /\ \/ \E saved \in {0, Len(p.processedArticles)} :
                Advance(t, [p EXCEPT !.pc = "ok",
                                     !.processedArticles = <<>>,
                                     !.count = saved,
                                     !.saves = p.saves + 1])
           \/ /\ p.attempts < stopAfterAttempt
              /\ Advance(t, FirstStage([p EXCEPT !.saves = p.saves + 1]))
           \/ StageThrows(t, FALSE)
        /\ UNCHANGED notCrawlVars

\* saveCrawledArticles resolves with the number saved, which is the result of
\* the sequence, or rejects
SaveArticles(t) ==
    LET p == pipeline[t]
    IN  /\ p.pc = "saveArticles"
        /\ \/ \E saved \in {0, Len(p.processedArticles)} :
                Advance(t, [p EXCEPT !.pc = "ok",
                                     !.processedArticles = <<>>,
                                     !.count = saved,
                                     !.saves = p.saves + 1])
           \/ StageThrows(t, FALSE)
        /\ UNCHANGED notCrawlVars

CrawlNext ==
    \/ \E t \in Targets : BatchStart(t)
    \/ \E t \in Targets : FetchListPageHtml(t)
    \/ \E t \in Targets : ParseListPageHtml(t)
    \/ \E t \in Targets : DedupeListItems(t)
    \/ \E t \in Targets : FetchDetailPagesHtml(t)
    \/ \E t \in Targets : ParseDetailPagesHtml(t)
    \/ \E t \in Targets : MergeParsedArticles(t)
    \/ \E t \in Targets : SaveArticles(t)

(***************************************************************************)
(* Orchestrator: GenerateNewsletter.generate, src/src/generate-newsletter.ts *)
(***************************************************************************)

\* ids a created newsletter can have; Null: none was created
NewsletterIds == {"nl-1", "nl-2"}

MacroStages == <<"crawl", "analysis", "contentGenerate">>

\* ids taskService.start() can resolve with
TaskIds == {"task-1", "task-2"}

Pending == [state |-> "pending", value |-> Null]

Resolved(value) == [state |-> "resolved", value |-> value]

Rejected(error) == [state |-> "rejected", value |-> error]

GenerateIdle ==
    /\ opc = "idle"
    /\ taskId = Null
    /\ previewNewsletterOptions = FALSE
    /\ startCalls = 0
    /\ endCalls = 0
    /\ stagesBegun = <<>>
    /\ pipelineOutcome = Pending
    /\ newsletterId = Null
    /\ previewCalls = <<>>
    /\ olog = <<>>
    /\ generateResult = Pending

\* generate() entered: executeWithTaskManagement awaits startTask()
GenerateStart ==
    /\ opc = "startTask"
    /\ taskId = Null
    /\ previewNewsletterOptions \in BOOLEAN
    /\ startCalls = 1
    /\ endCalls = 0
    /\ stagesBegun = <<>>
    /\ pipelineOutcome = Pending
    /\ newsletterId = Null
    /\ previewCalls = <<>>
    /\ olog = <<>>
    /\ generateResult = Pending

\* start() resolved: 'task.start' is logged and the sequence begins its first stage
StartTaskResolved ==
    /\ opc = "startTask"
    /\ taskId' \in TaskIds
    /\ olog' = Append(olog, "task.start")
    /\ stagesBegun' = <<MacroStages[1]>>
    /\ opc' = "stage"
    /\ UNCHANGED <<previewNewsletterOptions, startCalls, endCalls,
                   pipelineOutcome, newsletterId, previewCalls, generateResult>>
    /\ UNCHANGED notGenerateVars

\* a rejected start() handled inside the try: finally calls end()
StartTaskRejected_CallsEnd ==
    /\ opc = "startTask"
    /\ endCalls' = endCalls + 1
    /\ pipelineOutcome' = Rejected("start error")
    /\ opc' = "endTask"
    /\ UNCHANGED <<taskId, previewNewsletterOptions, startCalls, stagesBegun,
                   newsletterId, previewCalls, olog, generateResult>>
    /\ UNCHANGED notGenerateVars

\* start() rejected: the await is outside the try, generate() rejects
StartTaskRejected ==
    /\ opc = "startTask"
    /\ opc' = "settled"
    /\ generateResult' = Rejected("start error")
    /\ UNCHANGED <<taskId, previewNewsletterOptions, startCalls, endCalls, stagesBegun,
                   pipelineOutcome, newsletterId, previewCalls, olog>>
    /\ UNCHANGED notGenerateVars

\* the preview fetched as soon as the pipeline resolved, before end()
StageResolved_PreviewBeforeEnd ==
    /\ opc = "stage"
    /\ IF Len(stagesBegun) < Len(MacroStages)
       THEN /\ stagesBegun' = Append(stagesBegun, MacroStages[Len(stagesBegun) + 1])
            /\ UNCHANGED <<opc, endCalls, pipelineOutcome, newsletterId, olog,
                           previewCalls>>
       ELSE \E id \in NewsletterIds \cup {Null} :
            /\ pipelineOutcome' = Resolved(id)
            /\ newsletterId' = id
            /\ olog' = Append(olog, "task.done")
            /\ previewCalls' =
                   IF previewNewsletterOptions /\ id /= Null
                   THEN Append(previewCalls, "fetchNewsletterForPreview")
                   ELSE previewCalls
            /\ endCalls' = endCalls + 1
            /\ opc' = "endTask"
            /\ UNCHANGED stagesBegun
    /\ UNCHANGED <<taskId, previewNewsletterOptions, startCalls, generateResult>>
    /\ UNCHANGED notGenerateVars

\* a macro-stage resolved: the next one begins, or the sequence resolves with
\* the last stage's newsletterId, 'task.done' is logged and finally calls end()
StageResolved ==
    /\ opc = "stage"
    /\ IF Len(stagesBegun) < Len(MacroStages)
       THEN /\ stagesBegun' = Append(stagesBegun, MacroStages[Len(stagesBegun) + 1])
            /\ UNCHANGED <<opc, endCalls, pipelineOutcome, newsletterId, olog>>
       ELSE \E id \in NewsletterIds \cup {Null} :
            /\ pipelineOutcome' = Resolved(id)
            /\ newsletterId' = id
            /\ olog' = Append(olog, "task.done")
            /\ endCalls' = endCalls + 1
            /\ opc' = "endTask"
            /\ UNCHANGED stagesBegun
    /\ UNCHANGED <<taskId, previewNewsletterOptions, startCalls, previewCalls,
                   generateResult>>
    /\ UNCHANGED notGenerateVars

\* a rejected macro-stage after which the sequence goes on to the next one
StageRejected_RunsNext ==
    /\ opc = "stage"
    /\ pipelineOutcome' = Rejected(stagesBegun[Len(stagesBegun)])
    /\ olog' = olog \o <<"task.error", stagesBegun[Len(stagesBegun)]>>
    /\ IF Len(stagesBegun) < Len(MacroStages)
       THEN /\ stagesBegun' =
                   Append(stagesBegun, MacroStages[Len(stagesBegun) + 1])
            /\ UNCHANGED <<opc, endCalls>>
       ELSE /\ endCalls' = endCalls + 1
            /\ opc' = "endTask"
            /\ UNCHANGED stagesBegun
    /\ UNCHANGED <<taskId, previewNewsletterOptions, startCalls, newsletterId,
                   previewCalls, generateResult>>
    /\ UNCHANGED notGenerateVars

StageRejected_NoFinally ==
    /\ opc = "stage"
    /\ pipelineOutcome' = Rejected(stagesBegun[Len(stagesBegun)])
    /\ olog' = olog \o <<"task.error", stagesBegun[Len(stagesBegun)]>>
    /\ opc' = "settled"
    /\ generateResult' = pipelineOutcome'
    /\ UNCHANGED <<taskId, previewNewsletterOptions, startCalls, endCalls,
                   stagesBegun, newsletterId, previewCalls>>
    /\ UNCHANGED notGenerateVars

\* a macro-stage rejected: 'task.error' and the error are logged, the error is
\* rethrown and finally calls end()
StageRejected ==
    /\ opc = "stage"
    /\ pipelineOutcome' = Rejected(stagesBegun[Len(stagesBegun)])
    /\ olog' = olog \o <<"task.error", stagesBegun[Len(stagesBegun)]>>
    /\ endCalls' = endCalls + 1
    /\ opc' = "endTask"
    /\ UNCHANGED <<taskId, previewNewsletterOptions, startCalls, stagesBegun,
                   newsletterId, previewCalls, generateResult>>
    /\ UNCHANGED notGenerateVars

\* end() resolved.  After a rejected pipeline generate() rejects with the
\* pipeline's error; otherwise logNewsletterResult and
\* sendPreviewNewsletterIfConfigured follow.
EndTaskResolved ==
    /\ opc = "endTask"
    /\ IF pipelineOutcome.state = "rejected"
       THEN /\ opc' = "settled"
            /\ generateResult' = pipelineOutcome
            /\ UNCHANGED <<olog, previewCalls>>
       ELSE IF ~previewNewsletterOptions
       THEN /\ olog' = Append(olog, IF newsletterId = Null
                                    THEN "generate.result.skipped"
                                    ELSE "generate.result.created")
            /\ opc' = "settled"
            /\ generateResult' = Resolved(newsletterId)
            /\ UNCHANGED previewCalls
       ELSE IF newsletterId = Null
       THEN /\ olog' = olog \o <<"generate.result.skipped", "generate.preview.skip">>
            /\ opc' = "settled"
            /\ generateResult' = Resolved(newsletterId)
            /\ UNCHANGED previewCalls
       ELSE /\ olog' = Append(olog, "generate.result.created")
            /\ previewCalls' = Append(previewCalls, "fetchNewsletterForPreview")
            /\ opc' = "previewFetch"
            /\ UNCHANGED generateResult
    /\ UNCHANGED <<taskId, previewNewsletterOptions, startCalls, endCalls, stagesBegun,
                   pipelineOutcome, newsletterId>>
    /\ UNCHANGED notGenerateVars

\* end() rejected: the rejection leaves the finally block and replaces
\* whatever the try block had settled with
EndTaskRejected ==
    /\ opc = "endTask"
    /\ opc' = "settled"
    /\ generateResult' = Rejected("end error")
    /\ UNCHANGED <<taskId, previewNewsletterOptions, startCalls, endCalls, stagesBegun,
                   pipelineOutcome, newsletterId, previewCalls, olog>>
    /\ UNCHANGED notGenerateVars

PreviewCaught_Rethrow(err) ==
    /\ olog' = olog \o <<"generate.preview.error", err>>
    /\ opc' = "settled"
    /\ generateResult' = Rejected(err)
    /\ UNCHANGED <<taskId, previewNewsletterOptions, startCalls, endCalls, stagesBegun,
                   pipelineOutcome, newsletterId>>

\* the catch of sendPreviewNewsletterIfConfigured, then `return newsletterId`
PreviewCaught(err) ==
    /\ olog' = olog \o <<"generate.preview.error", err>>
    /\ opc' = "settled"
    /\ generateResult' = Resolved(newsletterId)
    /\ UNCHANGED <<taskId, previewNewsletterOptions, startCalls, endCalls, stagesBegun,
                   pipelineOutcome, newsletterId>>

\* fetchNewsletterForPreview() resolved.  A value without properties (null)
\* makes the read of newsletter.title throw inside the try.
PreviewFetchResolved ==
    /\ opc = "previewFetch"
    /\ \E newsletter \in {"newsletter", Null} :
         IF newsletter = Null
         THEN PreviewCaught("TypeError") /\ UNCHANGED previewCalls
         ELSE /\ previewCalls' = Append(previewCalls, "emailService.send")
              /\ opc' = "previewSend"
              /\ UNCHANGED <<taskId, previewNewsletterOptions, startCalls, endCalls,
                             stagesBegun, pipelineOutcome, newsletterId, olog,
                             generateResult>>
    /\ UNCHANGED notGenerateVars

PreviewFetchRejected ==
    /\ opc = "previewFetch"
    /\ PreviewCaught("fetchNewsletterForPreview error")
    /\ UNCHANGED previewCalls
    /\ UNCHANGED notGenerateVars

PreviewSendResolved ==
    /\ opc = "previewSend"
    /\ olog' = Append(olog, "generate.preview.sent")
    /\ opc' = "settled"
    /\ generateResult' = Resolved(newsletterId)
    /\ UNCHANGED <<taskId, previewNewsletterOptions, startCalls, endCalls, stagesBegun,
                   pipelineOutcome, newsletterId, previewCalls>>
    /\ UNCHANGED notGenerateVars

PreviewSendRejected ==
    /\ opc = "previewSend"
    /\ PreviewCaught("send error")
    /\ UNCHANGED previewCalls
    /\ UNCHANGED notGenerateVars

GenerateNext ==
    \/ StartTaskResolved
    \/ StartTaskRejected
    \/ StageResolved
    \/ StageRejected
    \/ EndTaskResolved
    \/ EndTaskRejected
    \/ PreviewFetchResolved
    \/ PreviewFetchRejected
    \/ PreviewSendResolved
    \/ PreviewSendRejected

(***************************************************************************)
(* Logging executor: LoggingExecutor.executeWithLogging,                   *)
(* src/src/logging/logging-executor.ts                                     *)
(***************************************************************************)

Events == {"crawl.group", "crawl.save"}

\* config.level: unset, 'debug' or 'info'
Levels == {Null, "debug", "info"}

EmptyFields == [key \in {} |-> Null]

\* config.startFields: unset (<<>>) or one record of fields
StartFields ==
    {<<>>, <<[target |-> "news"]>>, <<[target |-> "news", count |-> "0"]>>}

\* config.doneFields: unset, a builder that returns fields, or one that
\* returns nothing
DoneFieldsKinds == {"unset", "fields", "void"}

FnResults == {"r1", "r2"}

FnErrors == {"boom", "fail"}

NoConfig ==
    [event |-> Null, level |-> Null, startFields |-> <<>>,
     doneFields |-> "unset"]

\* config.level ?? 'debug'
level == IF config.level = Null THEN "debug" ELSE config.level

\* config.startFields ?? {}
startData ==
    IF config.startFields = <<>> THEN EmptyFields ELSE config.startFields[1]

\* config.doneFields ? (config.doneFields(result) ?? {}) : {}
doneExtra(result) ==
    IF config.doneFields = "fields" THEN [count |-> result] ELSE EmptyFields

\* one call of this.logger[method](message)
LogMessage(method, suffix, data) ==
    [method |-> method, event |-> <<config.event, suffix>>, data |-> data,
     error |-> Null]

\* this.logger.error(err)
RawError(err) ==
    [method |-> "error", event |-> <<>>, data |-> EmptyFields, error |-> err]

LoggingIdle ==
    /\ lpc = "idle"
    /\ config = NoConfig
    /\ llog = <<>>
    /\ fnCalls = 0
    /\ fnOutcome = Pending
    /\ doneFieldsCalls = 0
    /\ callResult = Pending

LoggingStart ==
    /\ lpc = "called"
    /\ config \in [event : Events, level : Levels, startFields : StartFields,
                   doneFields : DoneFieldsKinds]
    /\ llog = <<>>
    /\ fnCalls = 0
    /\ fnOutcome = Pending
    /\ doneFieldsCalls = 0
    /\ callResult = Pending

\* lines 31-40: the start message goes to the logger
LogStart ==
    /\ lpc = "called"
    /\ llog' = Append(llog, LogMessage(level, "start", startData))
    /\ lpc' = "try"
    /\ UNCHANGED <<config, fnCalls, fnOutcome, doneFieldsCalls, callResult>>
    /\ UNCHANGED notLoggingVars

\* line 43: fn is invoked and awaited
InvokeFn ==
    /\ lpc = "try"
    /\ fnCalls' = fnCalls + 1
    /\ lpc' = "await"
    /\ UNCHANGED <<config, llog, fnOutcome, doneFieldsCalls, callResult>>
    /\ UNCHANGED notLoggingVars

\* the success path without its done message
FnResolved_NoDoneLog(result) ==
    /\ lpc = "await"
    /\ fnOutcome' = Resolved(result)
    /\ doneFieldsCalls' =
           IF config.doneFields = "unset"
           THEN doneFieldsCalls
           ELSE doneFieldsCalls + 1
    /\ callResult' = Resolved(result)
    /\ lpc' = "settled"
    /\ UNCHANGED <<config, llog, fnCalls>>
    /\ UNCHANGED notLoggingVars

\* lines 43-57: fn resolved
FnResolved(result) ==
    /\ lpc = "await"
    /\ fnOutcome' = Resolved(result)
    /\ doneFieldsCalls' =
           IF config.doneFields = "unset"
           THEN doneFieldsCalls
           ELSE doneFieldsCalls + 1
    /\ llog' = Append(llog, LogMessage(level, "done",
                                       spread(startData, doneExtra(result))))
    /\ callResult' = Resolved(result)
    /\ lpc' = "settled"
    /\ UNCHANGED <<config, fnCalls>>
    /\ UNCHANGED notLoggingVars

\* the failure path throwing a new error made from the caught one
FnRejected_WrapsError(err) ==
    /\ lpc = "await"
    /\ fnOutcome' = Rejected(err)
    /\ llog' = llog \o <<LogMessage(level, "error", startData), RawError(err)>>
    /\ callResult' = Rejected("wrapped")
    /\ lpc' = "settled"
    /\ UNCHANGED <<config, fnCalls, doneFieldsCalls>>
    /\ UNCHANGED notLoggingVars

\* lines 58-70: fn rejected (or threw)
FnRejected(err) ==
    /\ lpc = "await"
    /\ fnOutcome' = Rejected(err)
    /\ llog' = llog \o <<LogMessage(level, "error", startData), RawError(err)>>
    /\ callResult' = Rejected(err)
    /\ lpc' = "settled"
    /\ UNCHANGED <<config, fnCalls, doneFieldsCalls>>
    /\ UNCHANGED notLoggingVars

LoggingNext ==
    \/ LogStart
    \/ InvokeFn
    \/ \E result \in FnResults : FnResolved(result)
    \/ \E err \in FnErrors : FnRejected(err)

(***************************************************************************)
(* Content chain: ContentGenerateChain,                                    *)
(* src/src/generate-newsletter/chains/content-generate.chain.ts            *)
(***************************************************************************)

MaxCandidates == 6

\* what provider.fetchArticleCandidates can resolve with: up to MaxCandidates
\* articles, given by their importanceScore
CandidateLists ==
    {[k \in 1..n |-> IF k = 1 THEN first ELSE 3] :
        n \in 0..MaxCandidates, first \in {3, 8}}

\* config.provider.publicationCriteria?.minimumArticleCountForIssue ?? 5
minimumArticleCountForIssue ==
    IF publicationCriteria.minimumArticleCountForIssue = <<>>
    THEN 5
    ELSE publicationCriteria.minimumArticleCountForIssue[1]

\* config.provider.publicationCriteria?.priorityArticleScoreThreshold ?? 8
priorityArticleScoreThreshold ==
    IF publicationCriteria.priorityArticleScoreThreshold = <<>>
    THEN 8
    ELSE publicationCriteria.priorityArticleScoreThreshold[1]

hasHighImportancePost(candidates) ==
    \E k \in 1..Len(candidates) :
        candidates[k] >= priorityArticleScoreThreshold

\* lines 106-134: which way generateCoreContent goes
issueDecision(candidates) ==
    IF Len(candidates) = 0
    THEN "noarticle"
    ELSE IF /\ Len(candidates) <= minimumArticleCountForIssue
            /\ ~hasHighImportancePost(candidates)
         THEN "criteria"
         ELSE "issue"

ContentIdle ==
    /\ cpc = "idle"
    /\ publicationCriteria = [minimumArticleCountForIssue |-> <<>>,
                              priorityArticleScoreThreshold |-> <<>>]
    /\ htmlTemplate = ""
    /\ contentStopAfterAttempt = 1
    /\ contentAttempts = 0
    /\ candidateArticles = <<>>
    /\ decision = "none"
    /\ generatedCoreContent = Null
    /\ renderedHtml = Null
    /\ saveNewsletterCalls = 0
    /\ createdNewsletterId = Pending

ContentStart ==
    /\ cpc = "fetchArticleCandidates"
    /\ publicationCriteria \in
           [minimumArticleCountForIssue : {<<>>, <<2>>},
            priorityArticleScoreThreshold : {<<>>, <<9>>}]
    /\ htmlTemplate \in {"", "<h1>{{title}}</h1>{{content}}"}
    /\ contentStopAfterAttempt \in StopAfterAttempts
    /\ contentAttempts = 1
    /\ candidateArticles = <<>>
    /\ decision = "none"
    /\ generatedCoreContent = Null
    /\ renderedHtml = Null
    /\ saveNewsletterCalls = 0
    /\ createdNewsletterId = Pending

\* withRetry: a throw in any stage starts the sequence again, or ends the
\* chain once stopAfterAttempt executions were made
ContentThrows ==
    /\ IF contentAttempts < contentStopAfterAttempt
       THEN /\ cpc' = "fetchArticleCandidates"
            /\ contentAttempts' = contentAttempts + 1
            /\ createdNewsletterId' = createdNewsletterId
       ELSE /\ cpc' = "failed"
            /\ contentAttempts' = contentAttempts
            /\ createdNewsletterId' = Rejected("error")
    /\ candidateArticles' = <<>>
    /\ decision' = "none"
    /\ generatedCoreContent' = Null
    /\ renderedHtml' = Null

FetchArticleCandidates ==
    /\ cpc = "fetchArticleCandidates"
    /\ \/ /\ candidateArticles' \in CandidateLists
          /\ cpc' = "generateCoreContent"
          /\ UNCHANGED <<contentAttempts, decision, generatedCoreContent, renderedHtml,
                         createdNewsletterId>>
       \/ ContentThrows
    /\ UNCHANGED <<publicationCriteria, htmlTemplate, contentStopAfterAttempt,
                   saveNewsletterCalls>>
    /\ UNCHANGED notContentVars

\* null without candidates or below the criteria, else the content that
\* GenerateNewsletter.execute() resolves with; execute() may reject
GenerateCoreContent ==
    /\ cpc = "generateCoreContent"
    /\ \/ /\ decision' = issueDecision(candidateArticles)
          /\ generatedCoreContent' =
                 IF decision' = "issue" THEN "core content" ELSE Null
          /\ cpc' = "renderHtml"
          /\ UNCHANGED <<contentAttempts, candidateArticles, renderedHtml,
                         createdNewsletterId>>
       \/ /\ issueDecision(candidateArticles) = "issue"
          /\ ContentThrows
    /\ UNCHANGED <<publicationCriteria, htmlTemplate, contentStopAfterAttempt,
                   saveNewsletterCalls>>
    /\ UNCHANGED notContentVars

\* null without core content, else the template with its markers replaced
\* (the empty template stays empty)
RenderHtml ==
    /\ cpc = "renderHtml"
    /\ renderedHtml' = IF generatedCoreContent = Null
               THEN Null
               ELSE IF htmlTemplate = ""
                    THEN ""
                    ELSE "<h1>title</h1>content"
    /\ cpc' = "createNewsletter"
    /\ UNCHANGED <<publicationCriteria, htmlTemplate, contentStopAfterAttempt,
                   contentAttempts, candidateArticles, decision,
                   generatedCoreContent, saveNewsletterCalls,
                   createdNewsletterId>>
    /\ UNCHANGED notContentVars

\* createNewsletter without the test of html and coreContent
CreateNewsletter_AlwaysSaves ==
    /\ cpc = "createNewsletter"
    /\ saveNewsletterCalls' = saveNewsletterCalls + 1
    /\ \/ /\ \E id \in NewsletterIds : createdNewsletterId' = Resolved(id)
          /\ cpc' = "ok"
          /\ UNCHANGED <<contentAttempts, candidateArticles, decision,
                         generatedCoreContent, renderedHtml>>
       \/ ContentThrows
    /\ UNCHANGED <<publicationCriteria, htmlTemplate, contentStopAfterAttempt>>
    /\ UNCHANGED notContentVars

\* null when !html || !coreContent, else the id provider.saveNewsletter
\* resolves with; saveNewsletter may reject
CreateNewsletter ==
    /\ cpc = "createNewsletter"
    /\ IF Falsy(renderedHtml) \/ generatedCoreContent = Null
       THEN /\ createdNewsletterId' = Resolved(Null)
            /\ cpc' = "ok"
            /\ UNCHANGED <<contentAttempts, candidateArticles, decision,
                           generatedCoreContent, renderedHtml, saveNewsletterCalls>>
       ELSE /\ saveNewsletterCalls' = saveNewsletterCalls + 1
            /\ \/ /\ \E id \in NewsletterIds :
                         createdNewsletterId' = Resolved(id)
                  /\ cpc' = "ok"
                  /\ UNCHANGED <<contentAttempts, candidateArticles, decision,
                                 generatedCoreContent, renderedHtml>>
               \/ ContentThrows
    /\ UNCHANGED <<publicationCriteria, htmlTemplate, contentStopAfterAttempt>>
    /\ UNCHANGED notContentVars

ContentNext ==
    \/ FetchArticleCandidates
    \/ GenerateCoreContent
    \/ RenderHtml
    \/ CreateNewsletter

(***************************************************************************)
(* The accumulator update of reprocess (lines 466-477 of                   *)
(* src/src/generate-newsletter/utils/get-html-from-url.ts), applied to     *)
(* given sequences of articles                                             *)
(***************************************************************************)

MaxUpdateLen == 2

\* sequences of at most MaxUpdateLen articles over three ids; an id may
\* occur more than once
ArticleSeqs(kind, scores) ==
    UNION {[1..n -> {[UnscoredArticle(id, kind) EXCEPT !.importanceScore = s] :
                        id \in 1..3, s \in scores}] : n \in 0..MaxUpdateLen}

UpdateIdle ==
    /\ upc = "idle"
    /\ updCurrent = <<>>
    /\ reprocessedArticles = <<>>
    /\ updated = <<>>

UpdateStart ==
    /\ upc = "input"
    /\ updCurrent \in ArticleSeqs(1, {1})
    /\ reprocessedArticles \in ArticleSeqs(2, {5, 6})
    /\ updated = <<>>

\* const updated = current.map(article => find(same id) || article)
ApplyUpdateCurrent ==
    /\ upc = "input"
    /\ updated' = UpdateCurrent(updCurrent, reprocessedArticles)
    /\ upc' = "applied"
    /\ UNCHANGED <<updCurrent, reprocessedArticles>>
    /\ UNCHANGED notUpdateVars

(***************************************************************************)
(* determineImportance for one article: lines 745-801 of                   *)
(* src/src/generate-newsletter/utils/get-html-from-url.ts with             *)
(* DetermineArticleImportance,                                             *)
(* src/src/generate-newsletter/llm-queries/determine-article-importance.llm.ts *)
(***************************************************************************)

\* minPoint: the minScore of the first rule for the article's targetUrl, or 1
minPoint ==
    LET rules == minimumImportanceScoreRules
        matching == {k \in 1..Len(rules) :
                        rules[k].targetUrl = targetArticle.targetUrl}
    IN  IF matching = {}
        THEN 1
        ELSE rules[CHOOSE k \in matching : \A j \in matching : k <= j].minScore

\* z.number().min(1).max(10)
schemaAccepts(output) == output >= 1 /\ output <= 10

ScoreIdle ==
    /\ spc = "idle"
    /\ minimumImportanceScoreRules = <<>>
    /\ targetArticle = [targetUrl |-> Null]
    /\ requestedRange = <<>>
    /\ modelOutput = <<>>
    /\ importanceScore = NoScore

ScoreStart ==
    /\ spc = "start"
    \* up to two rules, over two of three urls; a url may have two rules
    /\ minimumImportanceScoreRules \in
           UNION {[1..n -> [targetUrl : {"u1", "u2"}, minScore : {3, 7}]] :
                     n \in 0..2}
    /\ targetArticle \in [targetUrl : {"u1", "u2", "u3"}]
    /\ requestedRange = <<>>
    /\ modelOutput = <<>>
    /\ importanceScore = NoScore

\* execute(): generateText is called with the prompts, which name the range
\* minPoint to 10
RequestScore ==
    /\ spc = "start"
    /\ requestedRange' = <<minPoint, 10>>
    /\ spc' = "await"
    /\ UNCHANGED <<minimumImportanceScoreRules, targetArticle, modelOutput,
                   importanceScore>>
    /\ UNCHANGED notScoreVars

\* the returned score raised to the floor of the rule
ModelAnswered_Clamped(output) ==
    /\ spc = "await"
    /\ modelOutput' = <<output>>
    /\ importanceScore' = IF schemaAccepts(output)
                          THEN Max(output, minPoint)
                          ELSE 1
    /\ spc' = "pushed"
    /\ UNCHANGED <<minimumImportanceScoreRules, targetArticle, requestedRange>>
    /\ UNCHANGED notScoreVars

\* the model answered: an output the schema accepts is returned by execute()
\* and pushed with the article as it is; any other makes execute() reject
\* and the catch block pushes the article with score 1
ModelAnswered(output) ==
    /\ spc = "await"
    /\ modelOutput' = <<output>>
    /\ importanceScore' = IF schemaAccepts(output) THEN output ELSE 1
    /\ spc' = "pushed"
    /\ UNCHANGED <<minimumImportanceScoreRules, targetArticle, requestedRange>>
    /\ UNCHANGED notScoreVars

\* generateText rejected without an output: the catch block pushes score 1
ModelFailed ==
    /\ spc = "await"
    /\ importanceScore' = 1
    /\ spc' = "pushed"
    /\ UNCHANGED <<minimumImportanceScoreRules, targetArticle, requestedRange,
                   modelOutput>>
    /\ UNCHANGED notScoreVars

\* the model may put out a score inside or outside the schema's range
ScoreNext ==
    \/ RequestScore
    \/ \E output \in {0, 1, 2, 5, 10, 11} : ModelAnswered(output)
    \/ ModelFailed

(***************************************************************************)
(* The list-page fetches of one target: fetchListPageHtml calls            *)
(* getHtmlFromUrl once in every execution of the target's pipeline, and    *)
(* withRetry bounds the executions (src/unnamed/part_015, lines 57-92 and  *)
(* 117-128)                                                                *)
(***************************************************************************)

ListIdle ==
    /\ listExecutions = 0
    /\ listStopAfterAttempt = 1
    /\ listRequests = 0

\* withRetry without its bound on the executions
ListFetchAgain_NoBound ==
    /\ fpc \in {"thrown", "returned"}
    /\ listExecutions < listStopAfterAttempt + 1
    /\ listExecutions' = listExecutions + 1
    /\ listRequests' = listRequests + requests
    /\ fpc' = "request"
    /\ attempt' = 1
    /\ requests' = 0
    /\ outcomes' = <<>>
    /\ lastError' = NoError
    /\ delay' = 0
    /\ retryAfterHeader' = NoHeader
    /\ flog' = <<>>
    /\ UNCHANGED listStopAfterAttempt
    /\ UNCHANGED <<insightVars, crawlVars, generateVars, loggingVars,
                   contentVars, updateVars, scoreVars>>

\* the list-page fetch threw, or it returned and a later stage threw: withRetry
\* executes the sequence again, which calls getHtmlFromUrl for the list page
\* anew, unless stopAfterAttempt executions were made
ListFetchAgain ==
    /\ fpc \in {"thrown", "returned"}
    /\ listExecutions < listStopAfterAttempt
    /\ listExecutions' = listExecutions + 1
    /\ listRequests' = listRequests + requests
    /\ fpc' = "request"
    /\ attempt' = 1
    /\ requests' = 0
    /\ outcomes' = <<>>
    /\ lastError' = NoError
    /\ delay' = 0
    /\ retryAfterHeader' = NoHeader
    /\ flog' = <<>>
    /\ UNCHANGED listStopAfterAttempt
    /\ UNCHANGED <<insightVars, crawlVars, generateVars, loggingVars,
                   contentVars, updateVars, scoreVars>>

(***************************************************************************)
(* Specifications                                                          *)
(***************************************************************************)

FetchInit ==
    FetchStart /\ InsightsIdle /\ CrawlIdle /\ GenerateIdle /\ LoggingIdle
    /\ ContentIdle /\ UpdateIdle /\ ScoreIdle /\ ListIdle

SpecFetch == FetchInit /\ [][FetchNext]_vars

\* Every fetch() settles (the per-attempt timeout aborts it) and every sleep()
\* ends, so a call that can take a step eventually takes one.
SpecFetchFair == FetchInit /\ [][FetchNext]_vars /\ WF_vars(FetchNext)

InsightsInit ==
    InsightsStart /\ FetchIdle /\ CrawlIdle /\ GenerateIdle /\ LoggingIdle
    /\ ContentIdle /\ UpdateIdle /\ ScoreIdle /\ ListIdle

SpecInsights == InsightsInit /\ [][InsightsNext]_vars

CrawlInit ==
    CrawlStart /\ FetchIdle /\ InsightsIdle /\ GenerateIdle /\ LoggingIdle
    /\ ContentIdle /\ UpdateIdle /\ ScoreIdle /\ ListIdle

SpecCrawl == CrawlInit /\ [][CrawlNext]_vars

GenerateInit ==
    GenerateStart /\ FetchIdle /\ InsightsIdle /\ CrawlIdle /\ LoggingIdle
    /\ ContentIdle /\ UpdateIdle /\ ScoreIdle /\ ListIdle

SpecGenerate == GenerateInit /\ [][GenerateNext]_vars

LoggingInit ==
    LoggingStart /\ FetchIdle /\ InsightsIdle /\ CrawlIdle /\ GenerateIdle
    /\ ContentIdle /\ UpdateIdle /\ ScoreIdle /\ ListIdle

SpecLogging == LoggingInit /\ [][LoggingNext]_vars

ContentInit ==
    ContentStart /\ FetchIdle /\ InsightsIdle /\ CrawlIdle /\ GenerateIdle
    /\ LoggingIdle /\ UpdateIdle /\ ScoreIdle /\ ListIdle

SpecContent == ContentInit /\ [][ContentNext]_vars

UpdateInit ==
    UpdateStart /\ FetchIdle /\ InsightsIdle /\ CrawlIdle /\ GenerateIdle
    /\ LoggingIdle /\ ContentIdle /\ ScoreIdle /\ ListIdle

SpecUpdate == UpdateInit /\ [][ApplyUpdateCurrent]_vars

ScoreInit ==
    ScoreStart /\ FetchIdle /\ InsightsIdle /\ CrawlIdle /\ GenerateIdle
    /\ LoggingIdle /\ ContentIdle /\ UpdateIdle /\ ListIdle

SpecScore == ScoreInit /\ [][ScoreNext]_vars

ListInit ==
    /\ FetchStart
    /\ listExecutions = 1
    /\ listStopAfterAttempt \in StopAfterAttempts
    /\ listRequests = 0
    /\ InsightsIdle /\ CrawlIdle /\ GenerateIdle /\ LoggingIdle /\ ContentIdle
    /\ UpdateIdle /\ ScoreIdle

SpecListPage == ListInit /\ [][FetchNext \/ ListFetchAgain]_vars

(***************************************************************************)
(* Claims about getHtmlFromUrl                                             *)
(***************************************************************************)

FetchEnded == fpc \in {"returned", "thrown"}

NonOkResponse(o) == o.kind = "response" /\ ~IsOk(o.status)

\* attempt i was followed by another attempt (issued, or due after the sleep)
FollowedByAttempt(i) ==
    \/ i < Len(outcomes)
    \/ i = Len(outcomes) /\ fpc \in {"sleep", "request"}

\* C1: a non-OK response is followed by another attempt only if its status is 429
\* or >= 500 and fewer than 5 attempts have been made; any other 4xx status ends
\* the call with an error after that attempt, with no further request.
C1_RetryOnlyRetryableStatus ==
    \A i \in 1..Len(outcomes) :
        NonOkResponse(outcomes[i]) =>
            /\ FollowedByAttempt(i) =>
                  /\ outcomes[i].status = 429 \/ outcomes[i].status >= 500
                  /\ i < maxRetries
            /\ (outcomes[i].status \in 400..499 /\ outcomes[i].status /= 429) =>
                  /\ i = Len(outcomes)
                  /\ requests = i
                  /\ fpc = "thrown"
                  /\ lastError = StatusError(outcomes[i].status)

\* a 500 was retried and the retry met a 404, which ended the call
C1_Witness ==
    /\ Len(outcomes) = 2
    /\ outcomes[1].status = 500
    /\ outcomes[2].status = 404
    /\ fpc = "thrown"

\* C2: whatever the attempts meet, one call issues at most 5 requests and always
\* ends, by returning the body or by throwing an error that is not null.
C2_AtMostFiveRequestsAndEnds ==
    /\ [](requests <= maxRetries /\ requests = Len(outcomes))
    /\ [](fpc = "thrown" => lastError /= NoError)
    /\ <>FetchEnded

\* five retryable failures in a row: the fifth ends the call with an error
C2_Witness ==
    /\ requests = maxRetries
    /\ fpc = "thrown"
    /\ \A i \in 1..Len(outcomes) : outcomes[i].status \in {429, 500}


(***************************************************************************)
(* Claims about generateInsights                                           *)
(***************************************************************************)

\* Progress of a generateInsights call: the passes started, then the position
\* inside the running pass.  A pass takes at most PassLength steps.
PassLength == 3 * Len(articles) + 3

PassProgress ==
    (ci - 1) + (ii - 1) + (si - 1)
    + (IF ipc \in {"score", "decide", "done"} THEN 1 ELSE 0)
    + (IF ipc \in {"decide", "done"} THEN 1 ELSE 0)
    + (IF ipc = "done" THEN 1 ELSE 0)

InsightsMeasure == passes * (PassLength + 1) + PassProgress

NeedsClassification == {k \in 1..Len(articles) : ~HasAllTags(articles[k])}

NeedsImageContext ==
    {k \in 1..Len(articles) :
        articles[k].hasAttachedImage /\ Falsy(articles[k].imageContextByLlm)}

SameTags(a, b) == a.tag1 = b.tag1 /\ a.tag2 = b.tag2 /\ a.tag3 = b.tag3

\* C3: generateInsights always terminates (every step advances a bounded measure
\* and no state before the end is stuck), also when every classification fails
\* on every pass, and every returned article has an importance score >= 1.
C3_TerminatesWithScores ==
    /\ [][InsightsMeasure' > InsightsMeasure]_insightVars
    /\ [](InsightsMeasure <= (maxIterations + 2) * (PassLength + 1))
    /\ [](ipc /= "done" => ENABLED InsightsNext)
    /\ [](ipc = "done" =>
            /\ Len(current) = Len(articles)
            /\ \A k \in 1..Len(current) : current[k].importanceScore >= 1)

\* the cap was reached without any classification ever succeeding, the scoring
\* of the first article failed in the last pass: both articles carry a score
C3_Witness ==
    /\ ipc = "done"
    /\ iteration = maxIterations
    /\ Range(tags) = {"x"}
    /\ Len(current) = 2
    /\ passTrace.classifyFailed = {1, 2}
    /\ passTrace.scoreFailed = {1}
    /\ current[1].importanceScore = 1
    /\ current[2].importanceScore = 10

\* C4: a failed classification, image-analysis or scoring call never rejects the
\* pass: the loops go on over the remaining articles, the failed article keeps
\* the tags / image context it had (unset), or gets score 1.
C4_SoftFailures ==
    /\ ipc /= "rejected"
    /\ \A k \in passTrace.classifyFailed :
          ci > k /\ FindById(generatedTags, articles[k].id) = 0
    /\ \A k \in passTrace.imageFailed :
          ii > k /\ FindById(generatedImageContextList, articles[k].id) = 0
    /\ ipc \in {"score", "decide", "done"} =>
          /\ passTrace.classifyCalled = NeedsClassification
          /\ passTrace.imageCalled = NeedsImageContext
          /\ Len(mergedArticles) = Len(articles)
          /\ \A k \in passTrace.classifyFailed :
                SameTags(mergedArticles[k], articles[k])
          /\ \A k \in passTrace.imageFailed :
                /\ mergedArticles[k].imageContextByLlm = articles[k].imageContextByLlm
                /\ Falsy(mergedArticles[k].imageContextByLlm)
    /\ ipc \in {"decide", "done"} =>
          /\ Len(determinedArticles) = Len(articles)
          /\ \A k \in passTrace.scoreFailed :
                determinedArticles[k] = [mergedArticles[k] EXCEPT !.importanceScore = 1]

\* classification, image analysis and scoring of the first article all failed;
\* the second article was still classified and scored by the model
C4_Witness ==
    /\ ipc = "decide"
    /\ passTrace.classifyFailed = {1}
    /\ passTrace.classifyCalled = {1, 2}
    /\ passTrace.imageFailed = {1}
    /\ passTrace.scoreFailed = {1}
    /\ determinedArticles[1].tag3 = Null
    /\ determinedArticles[1].importanceScore = 1
    /\ determinedArticles[2].tag3 = "z"
    /\ determinedArticles[2].importanceScore = 10


(***************************************************************************)
(* Claims about CrawlingChain.executeGroupPipeline                         *)
(***************************************************************************)

Finished(t) == pipeline[t].pc \in {"ok", "failed"}

StageOrder == <<"fetchListPageHtml", "parseListPageHtml", "dedupeListItems",
                "fetchDetailPagesHtml", "parseDetailPagesHtml",
                "mergeParsedArticles", "saveArticles", "ok">>

Running(pc) == \E i \in 1..(Len(StageOrder) - 1) : StageOrder[i] = pc

StageAfter(pc) == StageOrder[(CHOOSE i \in 1..Len(StageOrder) : StageOrder[i] = pc) + 1]

\* C5: within one execution of a target's pipeline no detail page is fetched
\* before fetchExistingArticlesByUrls has returned, and no detail page is
\* fetched for a detailUrl that the lookup returned.
C5_NoFetchOfExistingArticles ==
    /\ [](\A t \in Targets :
            /\ pipeline[t].detailFetched /= {} => pipeline[t].lookupDone
            /\ pipeline[t].detailFetched \cap pipeline[t].lookedUp = {})
    /\ [][\A t \in Targets :
            pipeline'[t].detailFetched /= pipeline[t].detailFetched
                => \/ pipeline'[t].detailFetched = {}
                   \/ pipeline[t].lookupDone]_vars

C5_Witness ==
    \E t \in Targets :
        /\ pipeline[t].pc = "parseDetailPagesHtml"
        /\ pipeline[t].lookedUp = {"a"}
        /\ pipeline[t].detailFetched = {"b"}
        /\ Len(pipeline[t].detailPagesHtmlWithPipelineId) = 1

\* C6: when one target's sub-pipeline has failed beyond retry and its siblings
\* have run to completion, the group's result holds the counts the siblings saved.
C6_SiblingCountsCollected ==
    (/\ gpc /= "idle"
     /\ \A t \in Targets : Finished(t)
     /\ \E t \in Targets : pipeline[t].pc = "failed"
     /\ \E t \in Targets : pipeline[t].pc = "ok" /\ pipeline[t].count > 0)
        => /\ gpc = "resolved"
           /\ groupResult = SumCounts(pipeline, targetCount)

\* C7: once the merge stage has thrown the mismatch error in some execution of
\* a target's pipeline, no further execution of that pipeline is started.
C7_MismatchIsFatal ==
    \A t \in Targets :
        pipeline[t].mismatchAt > 0 => pipeline[t].attempts = pipeline[t].mismatchAt

\* C8: a target's pipeline is executed at most stopAfterAttempt times, and a
\* step of it either starts the first execution, or moves from a resolved
\* stage to the next one, or, after a throw, starts a new execution at the
\* list-page fetch with nothing kept, or gives up once stopAfterAttempt
\* executions were made; a stage is never entered again on its own.
C8_RetryRestartsWholeSequence ==
    /\ [](\A t \in Targets : pipeline[t].attempts <= stopAfterAttempt)
    /\ [][\A t \in Targets :
            LET p == pipeline[t]
                q == pipeline'[t]
            IN  p /= q =>
                  \/ /\ p.pc = "waiting"
                     /\ q = [NoPipeline EXCEPT !.pc = StageOrder[1], !.attempts = 1]
                  \/ /\ Running(p.pc)
                     /\ q.pc = StageAfter(p.pc)
                     /\ q.attempts = p.attempts
                  \/ /\ Running(p.pc)
                     /\ p.attempts < stopAfterAttempt
                     /\ q = [NoPipeline EXCEPT !.pc = StageOrder[1],
                                               !.attempts = p.attempts + 1,
                                               !.mismatchAt = q.mismatchAt]
                  \/ /\ Running(p.pc)
                     /\ p.attempts = stopAfterAttempt
                     /\ q.pc = "failed"
                     /\ q.attempts = p.attempts]_vars

C8_Witness ==
    \E t \in Targets :
        /\ stopAfterAttempt = 2
        /\ pipeline[t].mismatchAt = 1
        /\ pipeline[t].attempts = 2
        /\ pipeline[t].pc = "failed"

(***************************************************************************)
(* Claims about GenerateNewsletter.generate                                *)
(***************************************************************************)

\* C9: end() is called at most once and only after the macro-pipeline has
\* resolved or rejected; a call whose start() resolved does not settle without
\* exactly one end(); no macro-stage begins before start() has resolved.
C9_EndExactlyOnceAfterPipeline ==
    /\ endCalls <= 1
    /\ endCalls = 1 => pipelineOutcome.state /= "pending" /\ taskId /= Null
    /\ pipelineOutcome.state /= "pending" => endCalls = 1
    /\ (opc = "settled" /\ taskId /= Null) => endCalls = 1
    /\ stagesBegun /= <<>> => (taskId /= Null /\ opc /= "startTask" /\ startCalls = 1)

C9_Witness ==
    /\ opc = "settled"
    /\ taskId /= Null
    /\ pipelineOutcome = Rejected("analysis")
    /\ stagesBegun = <<"crawl", "analysis">>
    /\ endCalls = 1
    /\ generateResult = Rejected("analysis")

\* C10: a preview is attempted only when preview options are configured and the
\* pipeline produced an id; once it was attempted generate() resolves with
\* that id, and a failed fetchNewsletterForPreview or send has been logged as
\* 'generate.preview.error' followed by the error.
C10_PreviewFailureIsCaught ==
    /\ previewCalls /= <<>> =>
          /\ previewNewsletterOptions
          /\ newsletterId /= Null
          /\ pipelineOutcome = Resolved(newsletterId)
    /\ (opc = "settled" /\ previewCalls /= <<>>) =>
          /\ generateResult = Resolved(newsletterId)
          /\ \/ olog[Len(olog)] = "generate.preview.sent"
             \/ /\ olog[Len(olog) - 1] = "generate.preview.error"
                /\ olog[Len(olog)] \in {"fetchNewsletterForPreview error",
                                        "send error", "TypeError"}

C10_Witness ==
    /\ opc = "settled"
    /\ previewCalls = <<"fetchNewsletterForPreview", "emailService.send">>
    /\ olog[Len(olog)] = "send error"
    /\ generateResult = Resolved("nl-1")


(***************************************************************************)
(* Further claims about GenerateNewsletter.generate                        *)
(***************************************************************************)

\* C11: generate() rejects only because a macro-stage rejected, and then with
\* that stage's error; no other collaborator outcome makes it reject.
C11_RejectsOnlyOnStageFailure ==
    generateResult.state = "rejected" =>
        /\ pipelineOutcome.state = "rejected"
        /\ generateResult = pipelineOutcome

(***************************************************************************)
(* Further claims about generateInsights                                   *)
(***************************************************************************)

Complete(a) == HasAllTags(a) /\ a.importanceScore /= NoScore

\* C12: one call runs the pass at most 5 times in total, the first pass
\* counted, and a call that ends at the cap has logged
\* insights.warning.maxIterationsReached last.
C12_AtMostFivePasses ==
    /\ passes <= 5
    /\ (ipc = "done" /\ iteration >= maxIterations) =>
          ilog[Len(ilog)] = "insights.warning.maxIterationsReached"

\* C13: when every article of the accumulator has three tags and a score, the
\* next iteration of the loop ends the call: the accumulator is unchanged, no
\* pass is started and no model call is made.
C13_ConvergedIsFixpoint ==
    [][(ipc = "decide" /\ \A k \in 1..Len(current) : Complete(current[k]))
          => /\ ipc' = "done"
             /\ current' = current
             /\ passes' = passes
             /\ passTrace' = passTrace]_vars

C13_Witness ==
    /\ ipc = "done"
    /\ Len(current) = 2
    /\ \A k \in 1..Len(current) : Complete(current[k])
    /\ passes = 2
    /\ ilog[Len(ilog)] = "insights.complete"

\* the second pass of a one-article batch whose article misses tag3: the first
\* pass left tag3 unset (its classification threw), this pass classified the
\* article with three tags and scored it
SecondPassRepairs ==
    /\ Len(articles) = 1
    /\ Falsy(articles[1].tag3)
    /\ passes = 2
    /\ ipc = "score"
    /\ si > Len(mergedArticles)
    /\ current[1].tag3 = Null
    /\ passTrace.classifyCalled = {1}
    /\ passTrace.classifyFailed = {}
    /\ HasAllTags(generatedTags[1])
    /\ passTrace.scoreFailed = {}

LastOutcome == outcomes[Len(outcomes)]

\* the rejection an attempt ends with when its own timer fired:
\* controller.abort(`timeout after ${timeoutMs}ms`) hands fetch that string
TimedOut(o) == o.kind = "reject" /\ o.error = ReasonString

\* C15: an attempt cancelled by its own per-attempt timeout is retried; the
\* call fails on a timeout only at the 5th attempt.
C15_TimeoutIsRetried ==
    (fpc = "thrown" /\ TimedOut(LastOutcome)) => requests = maxRetries

\* C16: the wait before attempt n+1 is the backoff 2^(n-1)*1000 ms plus a
\* jitter below 1000 ms; after a response with a Retry-After in seconds or a
\* future HTTP date it is the larger of that backoff and the Retry-After
\* clamped to 0..60000 ms; a past or unparsable date, no header, or a
\* rejected attempt give the backoff alone.
C16_WaitBeforeNextAttempt ==
    fpc = "sleep" =>
        /\ attempt < maxRetries
        /\ \E j \in 0..999 :
            LET backoff == (2 ^ (attempt - 1)) * 1000 + j
                h == retryAfterHeader
                ms == IF h.form = "seconds" THEN h.value * 1000 ELSE h.value
                clamped == IF ms < 0 THEN 0 ELSE IF ms > 60000 THEN 60000 ELSE ms
                valid == \/ h.form = "seconds"
                         \/ h.form = "date" /\ h.value > 0
            IN  delay = IF LastOutcome.kind = "response" /\ valid
                        THEN (IF clamped >= backoff THEN clamped ELSE backoff)
                        ELSE backoff

C16_Witness ==
    /\ fpc = "sleep"
    /\ attempt = 2
    /\ LastOutcome.status = 429
    /\ retryAfterHeader = [form |-> "date", value |-> 90000]
    /\ delay = 60000

\* the message the most recent failure gives the thrown error
MostRecentFailure ==
    IF LastOutcome.kind = "response"
    THEN StatusError(LastOutcome.status)
    ELSE [isError |-> TRUE, words |-> LastOutcome.error.words]

\* C17 as stated: a call that ends in failure has logged fetch.failed last and
\* throws an error with the message of the most recent failure.
C17_FailedAlwaysLogged ==
    fpc = "thrown" =>
        /\ flog[Len(flog)] = "fetch.failed"
        /\ lastError = MostRecentFailure

\* C17, amended: a call that ends in failure throws an error with the message
\* of the most recent failure; when that failure was a rejected fetch() or
\* text(), fetch.failed is logged last; when it was a non-OK response, the last
\* event is that response's fetch.error and fetch.failed is not logged.
C17_FailureLogAndError ==
    fpc = "thrown" =>
        /\ lastError = MostRecentFailure
        /\ lastError /= NoError
        /\ IF LastOutcome.kind = "response"
           THEN /\ flog[Len(flog)] = "fetch.error"
                /\ \A i \in 1..Len(flog) : flog[i] /= "fetch.failed"
           ELSE /\ Len(flog) >= 2
                /\ flog[Len(flog) - 1] = "fetch.catch"
                /\ flog[Len(flog)] = "fetch.failed"

C17_Witness ==
    /\ fpc = "thrown"
    /\ Len(outcomes) = 2
    /\ outcomes[1] = Outcome("response", 500, NoError)
    /\ outcomes[2] = Outcome("reject", 0, ReasonString)
    /\ flog = <<"fetch.error", "fetch.catch", "fetch.failed">>
    /\ lastError = [isError |-> TRUE, words |-> {"timeout", "after", "ms"}]


(***************************************************************************)
(* Further claims about the per-target crawl pipeline                      *)
(***************************************************************************)

Urls(items) == {items[k].detailUrl : k \in 1..Len(items)}

\* C18: dedupeListItems returns exactly the parsed items whose detailUrl is not
\* among the detailUrls of the existing records, in their original order; its
\* size is the input size minus the number of items whose detailUrl is in
\* the existing set.
C18_DedupeIsExact ==
    [][\A t \in Targets :
         LET p == pipeline[t]
             q == pipeline'[t]
             existing == q.lookedUp
             known == {k \in 1..Len(p.parsedList) :
                          p.parsedList[k].detailUrl \in existing}
         IN  (p.pc = "dedupeListItems" /\ q.pc = "fetchDetailPagesHtml") =>
               /\ Len(q.list) = Len(p.parsedList) - Cardinality(known)
               /\ {q.list[i] : i \in 1..Len(q.list)} =
                     {p.parsedList[k] : k \in (1..Len(p.parsedList)) \ known}
               /\ \A i, j \in 1..Len(q.list) :
                     i < j => \E k, l \in 1..Len(p.parsedList) :
                                 /\ k < l
                                 /\ p.parsedList[k] = q.list[i]
                                 /\ p.parsedList[l] = q.list[j]]_vars

C18_Witness ==
    \E t \in Targets :
        /\ pipeline[t].pc = "fetchDetailPagesHtml"
        /\ pipeline[t].lookedUp = {"a"}
        /\ pipeline[t].list = <<[detailUrl |-> "b", pipelineId |-> 2]>>

\* C19: a merged record has exactly the keys of its list item and of its detail
\* record, pipelineId excepted, so no record handed to saveCrawledArticles has
\* a pipelineId.
C19_MergedKeys ==
    /\ [](\A t \in Targets :
            \A k \in 1..Len(pipeline[t].processedArticles) :
                "pipelineId" \notin DOMAIN pipeline[t].processedArticles[k])
    /\ [][\A t \in Targets :
            LET p == pipeline[t]
                q == pipeline'[t]
            IN  (p.pc = "mergeParsedArticles" /\ q.pc = "saveArticles") =>
                  \A k \in 1..Len(q.processedArticles) :
                     \E i \in 1..Len(p.list) :
                        /\ p.list[i].pipelineId = p.parsedDetails[k].pipelineId
                        /\ DOMAIN q.processedArticles[k] =
                              ((DOMAIN p.list[i]) \cup (DOMAIN p.parsedDetails[k]))
                                 \ {"pipelineId"}]_vars

C19_Witness ==
    \E t \in Targets :
        /\ pipeline[t].pc = "saveArticles"
        /\ Len(pipeline[t].processedArticles) = 2
        /\ DOMAIN pipeline[t].processedArticles[1] = {"detailUrl", "content"}

\* C20: the merge either yields one merged record per detail record, in detail
\* order, or, when some detail's pipelineId matches no list item, throws, and
\* then the execution ends without reaching saveArticles.
C20_MergeNeverDrops ==
    [][\A t \in Targets :
         LET p == pipeline[t]
             q == pipeline'[t]
             ids == {p.list[i].pipelineId : i \in 1..Len(p.list)}
             unmatched == \E k \in 1..Len(p.parsedDetails) :
                              p.parsedDetails[k].pipelineId \notin ids
         IN  (p.pc = "mergeParsedArticles" /\ q /= p) =>
               IF unmatched
               THEN /\ q.pc \in {"fetchListPageHtml", "failed"}
                    /\ q.processedArticles = <<>>
                    /\ q.count = 0
                    /\ q.mismatchAt > 0
               ELSE /\ q.pc = "saveArticles"
                    /\ Len(q.processedArticles) = Len(p.parsedDetails)
                    /\ \A k \in 1..Len(p.parsedDetails) :
                          q.processedArticles[k].content = p.parsedDetails[k].content]_vars

C20_Witness ==
    \E t \in Targets :
        /\ stopAfterAttempt = 1
        /\ pipeline[t].pc = "failed"
        /\ pipeline[t].mismatchAt = 1
        /\ pipeline[t].count = 0


InProgress == {t \in Targets : pipeline[t].pc \notin {"waiting", "ok", "failed"}}

\* C21: at every moment at most maxConcurrency sub-pipelines of the group are
\* in progress, maxConcurrency being the provider's value, or 5 when the
\* provider sets none.
C21_AtMostMaxConcurrency ==
    /\ Cardinality(InProgress) <= maxConcurrency
    /\ maxConcurrency = IF providerMaxConcurrency = <<>>
                        THEN 5
                        ELSE providerMaxConcurrency[1]

C21_Witness ==
    /\ maxConcurrency = 1
    /\ targetCount = 2
    /\ pipeline[1].pc = "saveArticles"
    /\ pipeline[2].pc = "waiting"


(***************************************************************************)
(* Claims C22, C23: the logging executor                                   *)
(***************************************************************************)

Emitted(suffix) ==
    {k \in 1..Len(llog) : llog[k].event = <<config.event, suffix>>}

RawErrors == {k \in 1..Len(llog) : llog[k].method = "error"}

C23_RejectionIsLoggedAndRethrown ==
    (lpc = "settled" /\ fnOutcome.state = "rejected") =>
        /\ Emitted("done") = {}
        /\ doneFieldsCalls = 0
        /\ Cardinality(RawErrors) = 1
        /\ \A k \in RawErrors : llog[k].error = fnOutcome.value
        /\ callResult = fnOutcome

C23_Witness ==
    /\ lpc = "settled"
    /\ config.doneFields = "fields"
    /\ callResult = Rejected("boom")
    /\ llog[3] = RawError("boom")


(***************************************************************************)
(* Claim C24: the publication criteria                                     *)
(***************************************************************************)

\* C24: once generateCoreContent has decided, a newsletter is issued whenever
\* there are at least minimumArticleCountForIssue candidates, with or without
\* a priority article, and none is issued only with zero candidates, or with
\* fewer candidates than the minimum and no priority article.
C24_IssuedFromMinimum ==
    decision /= "none" =>
        (decision = "issue" <=>
            /\ Len(candidateArticles) > 0
            /\ \/ Len(candidateArticles) >= minimumArticleCountForIssue
               \/ hasHighImportancePost(candidateArticles))


(***************************************************************************)
(* Claims C25, C26: correlation ids of the parsed details                  *)
(***************************************************************************)

\* C25: when the detail parse of a target has resolved, the i-th parsed detail
\* carries the pipelineId of the i-th surviving list item, the item whose
\* detailUrl was fetched to produce it, whatever parseDetail returned.
C25_DetailCarriesItsItemsId ==
    \A t \in Targets :
        LET p == pipeline[t]
        IN  p.pc = "mergeParsedArticles" =>
                /\ Len(p.parsedDetails) = Len(p.list)
                /\ \A i \in 1..Len(p.list) :
                      /\ p.parsedDetails[i].content = p.list[i].detailUrl
                      /\ p.parsedDetails[i].pipelineId = p.list[i].pipelineId

\* C26: when the merge stage is reached, each parsed detail has exactly one
\* list item with the same pipelineId, and the mismatch error is never raised
\* in any execution of a target's pipeline.
C26_MismatchNeverRaised ==
    \A t \in Targets :
        LET p == pipeline[t]
        IN  /\ p.pc = "mergeParsedArticles" =>
                \A i \in 1..Len(p.parsedDetails) :
                    Cardinality({k \in 1..Len(p.list) :
                        p.list[k].pipelineId = p.parsedDetails[i].pipelineId})
                    = 1
            /\ p.mismatchAt = 0


(***************************************************************************)
(* Claim C27: Retry-After                                                  *)
(***************************************************************************)

\* C27: while getHtmlFromUrl waits after a retryable response other than 429
\* (a 5xx), the delay is the exponential backoff of the attempt plus a jitter
\* below one second, whatever Retry-After header the response carried.
C27_RetryAfterOnlyFor429 ==
    (/\ fpc = "sleep"
     /\ LastOutcome.kind = "response"
     /\ LastOutcome.status /= 429)
        => /\ delay >= Pow2(attempt - 1) * 1000
           /\ delay < Pow2(attempt - 1) * 1000 + 1000


(***************************************************************************)
(* Claim C28: order of the macro-stages                                    *)
(***************************************************************************)

\* C28: the macro-stages begin in the order crawl, analysis, content
\* generation; a stage begins only while no stage has rejected, as the step
\* after the previous stage resolved; the stage that rejects is the last one
\* that began, so the stages after it never run.
C28_StagesInOrder ==
    /\ [](/\ Len(stagesBegun) <= Len(MacroStages)
          /\ \A k \in 1..Len(stagesBegun) : stagesBegun[k] = MacroStages[k])
    /\ [][stagesBegun' /= stagesBegun =>
            /\ stagesBegun' =
                   Append(stagesBegun, MacroStages[Len(stagesBegun) + 1])
            /\ pipelineOutcome = Pending
            /\ pipelineOutcome' = Pending]_vars
    /\ [](pipelineOutcome.state = "rejected" =>
            pipelineOutcome.value = stagesBegun[Len(stagesBegun)])

C28_Witness ==
    /\ opc = "settled"
    /\ stagesBegun = <<"crawl", "analysis">>
    /\ pipelineOutcome = Rejected("analysis")
    /\ generateResult = Rejected("analysis")


(***************************************************************************)
(* Claims C29, C30: the accumulator of generateInsights                    *)
(***************************************************************************)

Ids(seq) == [k \in 1..Len(seq) |-> seq[k].id]

\* the accumulator exists from the end of the first pass on
HasAccumulator == passes > 1 \/ ipc \in {"decide", "done"}

\* C29: from the end of the first pass on, the accumulator holds exactly the
\* ids of the provider's unscored articles, each once and in the provider's
\* order, and within a pass the scored articles are the provider's articles up
\* to the one being scored, whichever model calls failed.
C29_AccumulatorKeepsIds ==
    /\ HasAccumulator => Ids(current) = Ids(articles)
    /\ ipc = "score" =>
          /\ Ids(mergedArticles) = Ids(articles)
          /\ Ids(determinedArticles) = SubSeq(Ids(articles), 1, si - 1)

C29_Witness ==
    /\ ipc = "done"
    /\ passes > 2
    /\ Len(articles) = 2
    /\ passTrace.scoreFailed /= {}
    /\ passTrace.classifyFailed /= {}
    /\ Ids(current) = <<1, 2>>


\* the reprocessed articles that have the id of the k-th accumulator entry
SameId(k) ==
    {j \in 1..Len(reprocessedArticles) :
        reprocessedArticles[j].id = updCurrent[k].id}

\* C30: the update keeps the length and the ids of the accumulator; an entry
\* whose id some reprocessed article has is replaced by the reprocessed
\* article with that id (the first one, should several have it), and every
\* other entry is kept unchanged.
C30_ReplacedByIdElseKept ==
    upc = "applied" =>
        /\ Len(updated) = Len(updCurrent)
        /\ \A k \in 1..Len(updCurrent) :
              /\ updated[k].id = updCurrent[k].id
              /\ IF SameId(k) = {}
                 THEN updated[k] = updCurrent[k]
                 ELSE \E j \in SameId(k) :
                         /\ updated[k] = reprocessedArticles[j]
                         /\ \A i \in SameId(k) : j <= i

C30_Witness ==
    /\ upc = "applied"
    /\ Ids(updCurrent) = <<1, 2>>
    /\ Ids(reprocessedArticles) = <<3, 2>>
    /\ updated = <<updCurrent[1], reprocessedArticles[2]>>


(***************************************************************************)
(* Claims C31, C32: model calls and tag vocabulary of a pass               *)
(***************************************************************************)

\* C31: at every point of a pass the classification model has been called
\* exactly for the provider articles visited so far that lack one of tag1,
\* tag2, tag3, and the image model exactly for the visited articles that have
\* an attached image and no image context; no other article causes a call.
C31_ModelCalledOnlyWhenNeeded ==
    ipc \in {"pass", "score", "decide", "done"} =>
        /\ passTrace.classifyCalled = {k \in NeedsClassification : k < ci}
        /\ passTrace.imageCalled = {k \in NeedsImageContext : k < ii}

C31_Witness ==
    /\ ipc = "score"
    /\ Len(articles) = 2
    /\ HasAllTags(articles[1])
    /\ ~Falsy(articles[1].imageContextByLlm)
    /\ passTrace.classifyCalled = {2}
    /\ passTrace.imageCalled = {2}


\* the tags a classification result carries (null and '' are no tags)
TagsOf(g) == {tag \in {g.tag1, g.tag2, g.tag3} : ~Falsy(tag)}

\* C32: over all passes a step leaves the tag vocabulary as it is or appends
\* to it tags that were not in it, each once, so that nothing is removed and
\* no duplicate is added; and the classification call for an article received
\* a vocabulary holding every tag produced for the articles classified before
\* it in the pass.
C32_VocabularyOnlyGrows ==
    /\ [][/\ Len(tags') >= Len(tags)
          /\ SubSeq(tags', 1, Len(tags)) = tags
          /\ \A k \in (Len(tags) + 1)..Len(tags') :
                /\ tags'[k] \notin Range(tags)
                /\ \A j \in (Len(tags) + 1)..Len(tags') :
                      tags'[j] = tags'[k] => j = k]_vars
    /\ [](\A c \in 1..Len(passTrace.existTags) :
            \A g \in 1..Len(generatedTags) :
                generatedTags[g].id < articles[passTrace.existTags[c].at].id
                    => TagsOf(generatedTags[g])
                           \subseteq Range(passTrace.existTags[c].tags))

C32_Witness ==
    /\ ipc = "pass"
    /\ Len(passTrace.existTags) = 2
    /\ passTrace.existTags[1].tags = <<"x">>
    /\ passTrace.existTags[2].tags = <<"x", "y", "z">>
    /\ generatedTags[1].tag3 = "z"


(***************************************************************************)
(* Claim C33: the minimum-score rule                                       *)
(***************************************************************************)

\* the rules for the url of the article being scored
RulesForArticle ==
    {k \in 1..Len(minimumImportanceScoreRules) :
        minimumImportanceScoreRules[k].targetUrl = targetArticle.targetUrl}

\* C33: the range requested from the scoring model runs from the minScore of
\* the rule matching the article's targetUrl (1 when no rule matches) to 10,
\* and the score pushed with the article is the value the model returned,
\* unchanged, also when that value is below the requested floor.
C33_FloorOnlyInRequest ==
    /\ spc \in {"await", "pushed"} =>
          /\ Len(requestedRange) = 2
          /\ requestedRange[2] = 10
          /\ RulesForArticle = {} => requestedRange[1] = 1
          /\ RulesForArticle /= {} =>
                \E k \in RulesForArticle :
                    /\ requestedRange[1] = minimumImportanceScoreRules[k].minScore
                    /\ \A j \in RulesForArticle : k <= j
    /\ (spc = "pushed" /\ modelOutput /= <<>>
            /\ modelOutput[1] \in 1..10)
          => importanceScore = modelOutput[1]

C33_Witness ==
    /\ spc = "pushed"
    /\ requestedRange = <<7, 10>>
    /\ modelOutput = <<2>>
    /\ importanceScore = 2


(***************************************************************************)
(* Claim C34: saveNewsletter                                               *)
(***************************************************************************)

\* C34: provider.saveNewsletter is called only by an execution of the chain
\* in which core content and rendered html were both produced; an execution
\* in which generateCoreContent yielded null (no candidates, or criteria not
\* met) makes no call of saveNewsletter and resolves with newsletterId null.
C34_SaveOnlyWithContentAndHtml ==
    /\ [][saveNewsletterCalls' /= saveNewsletterCalls =>
            /\ cpc = "createNewsletter"
            /\ saveNewsletterCalls' = saveNewsletterCalls + 1
            /\ generatedCoreContent /= Null
            /\ decision = "issue"
            /\ ~Falsy(renderedHtml)]_vars
    /\ []((cpc \in {"renderHtml", "createNewsletter", "ok"}
              /\ decision \in {"noarticle", "criteria"})
            => generatedCoreContent = Null)
    /\ []((cpc = "ok" /\ generatedCoreContent = Null)
            => createdNewsletterId = Resolved(Null))

C34_Witness ==
    /\ cpc = "ok"
    /\ decision = "criteria"
    /\ Len(candidateArticles) = 5
    /\ generatedCoreContent = Null
    /\ saveNewsletterCalls = 0
    /\ createdNewsletterId = Resolved(Null)


(***************************************************************************)
(* Claim C35: progress of the accumulator                                  *)
(***************************************************************************)

IncompleteIn(acc) == {k \in 1..Len(acc) : Incomplete(acc[k])}

\* C35: when a reprocessing pass is folded into the accumulator, every article
\* that had its three tags in the accumulator still has them, and the number
\* of incomplete articles in the accumulator does not increase.
C35_CompleteStaysComplete ==
    [][(passes > 1 /\ ipc = "score" /\ ipc' = "decide") =>
          /\ \A k \in 1..Len(current) :
                HasAllTags(current[k]) => HasAllTags(current'[k])
          /\ Cardinality(IncompleteIn(current'))
                <= Cardinality(IncompleteIn(current))]_vars


(***************************************************************************)
(* Claims C36, C40: the task lifecycle around the pipeline                 *)
(***************************************************************************)

\* the task is open from the call of start() until end() has completed
TaskOpen == opc \in {"startTask", "stage", "endTask"}

\* C36: no preview collaborator is called while the task is open; a call of
\* fetchNewsletterForPreview or emailService.send is made only in a step that
\* leaves the task closed, and then end() was called once and resolved.
C36_PreviewAfterEnd ==
    /\ [](TaskOpen => previewCalls = <<>>)
    /\ [][previewCalls' /= previewCalls =>
            /\ opc \in {"endTask", "previewFetch"}
            /\ ~TaskOpen'
            /\ endCalls = 1
            /\ generateResult' /= Rejected("end error")]_vars

C36_Witness ==
    /\ opc = "previewSend"
    /\ endCalls = 1
    /\ previewCalls = <<"fetchNewsletterForPreview", "emailService.send">>
    /\ generateResult = Pending

\* C40: when start() rejected, generate() rejects with that error, no
\* macro-stage has begun and end() was not called; end() is called only after
\* start() resolved.
C40_NoEndWithoutStart ==
    /\ (opc = "settled" /\ taskId = Null) =>
          /\ generateResult = Rejected("start error")
          /\ stagesBegun = <<>>
          /\ pipelineOutcome = Pending
          /\ endCalls = 0
          /\ previewCalls = <<>>
    /\ endCalls > 0 => (taskId /= Null /\ startCalls = 1)
    /\ generateResult = Rejected("start error") => taskId = Null

C40_Witness ==
    /\ opc = "settled"
    /\ taskId = Null
    /\ startCalls = 1
    /\ endCalls = 0
    /\ generateResult = Rejected("start error")


(***************************************************************************)
(* Claim C37: requests for one target's list page                          *)
(***************************************************************************)

\* C37: over the executions of one target's pipeline in a group run, the
\* requests issued for its list page number at most 5 x stopAfterAttempt: at
\* most 5 in one execution, and at most stopAfterAttempt executions.
C37_ListRequestsBounded ==
    /\ requests <= 5
    /\ listExecutions <= listStopAfterAttempt
    /\ listRequests + requests <= 5 * listStopAfterAttempt

C37_Witness ==
    /\ listStopAfterAttempt = 2
    /\ listExecutions = 2
    /\ listRequests = 5
    /\ requests = 5
    /\ fpc = "thrown"


(***************************************************************************)
(* Claims C38, C39: what a target's pipeline saves                         *)
(***************************************************************************)

\* C38: saveCrawledArticles resolves at most once for a target: once it has
\* resolved the target's pipeline is finished and is never executed again.
C38_SaveSucceedsAtMostOnce ==
    \A t \in Targets :
        /\ pipeline[t].saves <= 1
        /\ pipeline[t].saves = 1 <=> pipeline[t].pc = "ok"

C38_Witness ==
    \E t \in Targets :
        /\ pipeline[t].pc = "ok"
        /\ pipeline[t].attempts = 2
        /\ pipeline[t].saves = 1

DetailStages == {"fetchDetailPagesHtml", "parseDetailPagesHtml"}

\* the target's detail stage rejected in this step
DetailStageFailed(t) ==
    /\ pipeline[t].pc \in DetailStages
    /\ pipeline'[t] /= pipeline[t]
    /\ pipeline'[t].pc \notin {"parseDetailPagesHtml", "mergeParsedArticles"}

C39_AllDetailsPresent ==
    \A t \in Targets :
        LET p == pipeline[t]
        IN  /\ p.pc = "parseDetailPagesHtml"
                => Len(p.detailPagesHtmlWithPipelineId) = Len(p.list)
            /\ p.pc = "mergeParsedArticles"
                => Len(p.parsedDetails) = Len(p.list)

C39_FailedDetailEndsExecution ==
    \A t \in Targets :
        /\ DetailStageFailed(t) =>
              /\ pipeline[t].saves = 0
              /\ pipeline'[t].saves = 0
              /\ pipeline'[t].pc \in {"fetchListPageHtml", "failed"}
              /\ pipeline'[t].list = <<>>
              /\ pipeline'[t].detailPagesHtmlWithPipelineId = <<>>
              /\ pipeline'[t].parsedDetails = <<>>
              /\ pipeline'[t].processedArticles = <<>>
              /\ pipeline'[t].count = 0
        /\ pipeline'[t].saves /= pipeline[t].saves
              => pipeline[t].pc = "saveArticles"

\* C39: when a detail-page fetch or a detail parse of a target fails, the
\* execution of its pipeline ends there with nothing saved, the details that
\* were fetched and parsed included: the stages after a detail stage only ever
\* see the details of all the list items, and a save happens only in the save
\* stage.
C39_DetailFailureSavesNothing ==
    /\ []C39_AllDetailsPresent
    /\ [][C39_FailedDetailEndsExecution]_vars

C39_Witness ==
    \E t \in Targets :
        /\ pipeline[t].pc = "failed"
        /\ pipeline[t].detailFailed
        /\ pipeline[t].attempts = 2
        /\ pipeline[t].saves = 0
        /\ pipeline[t].count = 0

=========================================================================
